---- MODULE Spec2Model ----
(***************************************************************************)
(* MyLocalCLI: the command executor (src/src/core/executor.js), the tool   *)
(* dispatcher executeTool (src/unnamed/part_001, the current tools.js) and *)
(* the chat turn controller startChat (src/src/core/chat.js).              *)
(*                                                                         *)
(* JavaScript strings are TLA+ strings; TLC evaluates Len, SubSeq and \o   *)
(* on them, so substring tests, trimming, splitting and lower-casing are   *)
(* computed character by character as the code computes them.              *)
(***************************************************************************)
EXTENDS Integers, Sequences, FiniteSets, TLC

VARIABLES
    exec,       \* the executeCommand call in progress or last finished
    files,      \* filesystem: existing file path -> content
    dirs,       \* filesystem: existing directories below cwd
    repo,       \* version control: is cwd a repository, and the repo made
    last,       \* the executeTool call last returned (or raised)
    pc,         \* startChat: position of the main loop
    messages,   \* startChat: the conversation history
    turn        \* startChat: the turn in progress (response, batch, progress)

vars == <<exec, files, dirs, repo, last, pc, messages, turn>>

-----------------------------------------------------------------------------
(* JavaScript values and string primitives *)

\* null / undefined, and a present value
NULL == [null |-> TRUE]
Some(v) == [null |-> FALSE, v |-> v]

Min(a, b) == IF a < b THEN a ELSE b

Ch(s, i) == SubSeq(s, i, i)

UpperAlpha == "ABCDEFGHIJKLMNOPQRSTUVWXYZ"
LowerAlpha == "abcdefghijklmnopqrstuvwxyz"

LowerChar(c) ==
    IF \E i \in 1..26 : Ch(UpperAlpha, i) = c
    THEN Ch(LowerAlpha, CHOOSE i \in 1..26 : Ch(UpperAlpha, i) = c)
    ELSE c

RECURSIVE ToLowerCase(_)
ToLowerCase(s) ==
    IF Len(s) = 0 THEN ""
    ELSE LowerChar(Ch(s, 1)) \o ToLowerCase(SubSeq(s, 2, Len(s)))

IsSpace(c) == c \in {" ", "\t", "\n", "\r"}

RECURSIVE TrimStart(_)
TrimStart(s) ==
    IF Len(s) > 0 /\ IsSpace(Ch(s, 1)) THEN TrimStart(SubSeq(s, 2, Len(s))) ELSE s

RECURSIVE TrimEnd(_)
TrimEnd(s) ==
    IF Len(s) > 0 /\ IsSpace(Ch(s, Len(s))) THEN TrimEnd(SubSeq(s, 1, Len(s) - 1)) ELSE s

Trim(s) == TrimEnd(TrimStart(s))

Includes(s, t) ==
    \E i \in 1..(Len(s) - Len(t) + 1) : SubSeq(s, i, i + Len(t) - 1) = t

StartsWith(s, t) == Len(t) <= Len(s) /\ SubSeq(s, 1, Len(t)) = t

\* s.split(/\s+/)
RECURSIVE SplitWs(_)
SplitWs(s) ==
    IF \A i \in 1..Len(s) : ~IsSpace(Ch(s, i)) THEN <<s>>
    ELSE LET i == CHOOSE j \in 1..Len(s) :
                      IsSpace(Ch(s, j)) /\ \A k \in 1..(j - 1) : ~IsSpace(Ch(s, k))
         IN <<SubSeq(s, 1, i - 1)>> \o SplitWs(TrimStart(SubSeq(s, i, Len(s))))

\* parts.join(' ')
RECURSIVE JoinSp(_)
JoinSp(parts) ==
    IF Len(parts) = 0 THEN ""
    ELSE IF Len(parts) = 1 THEN parts[1]
    ELSE parts[1] \o " " \o JoinSp(Tail(parts))

\* parts.slice(from) and parts.slice(0, n), 0-based as in the code
SliceFrom(parts, from) == SubSeq(parts, from + 1, Len(parts))
SliceTo(parts, n) == SubSeq(parts, 1, Min(n, Len(parts)))

-----------------------------------------------------------------------------
(* executor.js: tables *)

UNIX_TO_WINDOWS_COMMANDS == <<
    <<"ls", "dir">>, <<"ls -la", "dir">>, <<"ls -l", "dir">>, <<"ls -a", "dir /a">>,
    <<"ls -al", "dir /a">>, <<"ls -lh", "dir">>, <<"cat", "type">>, <<"rm", "del">>,
    <<"rm -f", "del /f">>, <<"rm -r", "rmdir /s /q">>, <<"rm -rf", "rmdir /s /q">>,
    <<"cp", "copy">>, <<"cp -r", "xcopy /s /e">>, <<"mv", "move">>,
    <<"mkdir -p", "mkdir">>, <<"touch", "type nul >">>, <<"pwd", "cd">>,
    <<"clear", "cls">>, <<"grep", "findstr">>, <<"find", "dir /s /b">>,
    <<"head", "more">>, <<"tail", "more">>,
    <<"chmod", "echo Windows does not support chmod">>,
    <<"chown", "echo Windows does not support chown">>,
    <<"which", "where">>, <<"man", "help">>, <<"uname", "ver">>, <<"ps", "tasklist">>,
    <<"kill", "taskkill /PID">>,
    <<"df", "wmic logicaldisk get size,freespace,caption">>,
    <<"du", "dir /s">>, <<"ln", "mklink">>, <<"tar", "tar">>, <<"curl", "curl">>,
    <<"wget", "curl -O">> >>

WINDOWS_TO_UNIX_COMMANDS == <<
    <<"dir", "ls -la">>, <<"type", "cat">>, <<"del", "rm">>, <<"copy", "cp">>,
    <<"move", "mv">>, <<"cls", "clear">>, <<"findstr", "grep">>, <<"where", "which">>,
    <<"ver", "uname -a">>, <<"tasklist", "ps aux">>, <<"taskkill", "kill">> >>

DANGEROUS_COMMANDS == <<
    "rm -rf", "rm -r", "rmdir", "del /s", "rd /s", "format", "mkfs", "dd if=",
    ":(){:|:&};:", "chmod -R 777", "chmod 777", "> /dev/sda", "mv /* ", "wget",
    "curl", "sudo", "su ", "shutdown", "reboot", "kill -9", "killall" >>

SAFE_COMMANDS == <<
    "ls", "dir", "pwd", "cd", "echo", "cat", "type", "head", "tail",
    "grep", "find", "which", "where", "whoami", "date", "env",
    "node --version", "npm --version", "python --version", "git status",
    "git log", "git branch", "git diff", "npm list", "pip list" >>

\* translationMap[key]: the value, or undefined
MapHas(map, key) == \E i \in 1..Len(map) : map[i][1] = key
MapGet(map, key) == map[CHOOSE i \in 1..Len(map) : map[i][1] = key][2]

-----------------------------------------------------------------------------
(* executor.js: translateCommand, isDangerousCommand, isSafeCommand *)

TranslateCommand(command, toWindows) ==
    LET translationMap == IF toWindows THEN UNIX_TO_WINDOWS_COMMANDS
                          ELSE WINDOWS_TO_UNIX_COMMANDS
        trimmedCmd == Trim(command)
        parts == SplitWs(trimmedCmd)
        baseCmd == parts[1]
        args == JoinSp(SliceFrom(parts, 1))
        unixParts(i) == SplitWs(translationMap[i][1])
        unixBase(i) == unixParts(i)[1]
        cmdWithFlags(i) == JoinSp(SliceTo(parts, Len(unixParts(i))))
        remainingArgs(i) == JoinSp(SliceFrom(parts, Len(unixParts(i))))
        \* the loop iteration i returns
        returns(i) == /\ baseCmd = unixBase(i)
                      /\ \/ MapHas(translationMap, cmdWithFlags(i))
                         \/ MapHas(translationMap, unixBase(i))
    IN  IF MapHas(translationMap, trimmedCmd)
        THEN Some(MapGet(translationMap, trimmedCmd))
        ELSE IF \E i \in 1..Len(translationMap) : returns(i)
        THEN LET i == CHOOSE j \in 1..Len(translationMap) :
                          returns(j) /\ \A k \in 1..(j - 1) : ~returns(k)
             IN IF MapHas(translationMap, cmdWithFlags(i))
                THEN Some(MapGet(translationMap, cmdWithFlags(i))
                          \o (IF remainingArgs(i) # "" THEN " " \o remainingArgs(i) ELSE ""))
                ELSE Some(MapGet(translationMap, unixBase(i))
                          \o (IF args # "" THEN " " \o args ELSE ""))
        ELSE NULL

IsDangerousCommand(command) ==
    LET lowerCmd == ToLowerCase(command)
    IN \E i \in 1..Len(DANGEROUS_COMMANDS) : Includes(lowerCmd, DANGEROUS_COMMANDS[i])

IsSafeCommand(command) ==
    LET lowerCmd == Trim(ToLowerCase(command))
    IN \E i \in 1..Len(SAFE_COMMANDS) : StartsWith(lowerCmd, SAFE_COMMANDS[i])

-----------------------------------------------------------------------------
(* executor.js: runCommand results and executeCommand *)

CANCELLED_BY_USER == [success |-> FALSE, error |-> "Command cancelled by user"]

\* runCommand's 'close' handler, code 0 / code n, not killed
ClosedResult(code, stderr) ==
    IF code = 0
    THEN [success |-> TRUE, stdout |-> "", stderr |-> stderr, exitCode |-> 0]
    ELSE [success |-> FALSE, error |-> "Exit code: " \o ToString(code),
          stdout |-> "", stderr |-> stderr, exitCode |-> code]

\* runCommand's 'close' handler after the timer killed the process
TimedOutResult == [success |-> FALSE, error |-> "Command timed out",
                   stdout |-> "", stderr |-> ""]

\* runCommand's 'error' handler
SpawnErrorResult(message) == [success |-> FALSE, error |-> message,
                              stdout |-> "", stderr |-> ""]

\* what the host can answer to one spawned shell
RunOutcomes == {
    ClosedResult(0, ""),
    ClosedResult(1, "'ls' is not recognized as an internal or external command"),
    ClosedResult(127, "/bin/sh: 1: dir: not found"),
    ClosedResult(1, "fatal: not a git repository"),
    ClosedResult(2, "No such file or directory"),
    TimedOutResult,
    SpawnErrorResult("spawn /bin/sh ENOENT"),
    SpawnErrorResult("spawn cmd EACCES") }

\* the commands handed to executeCommand
Commands == {
    "rm -rf /", "del /s *.*", "format c:", "sudo rm -rf /", "ls -la", "git status",
    "npm test", "kill -9 123", "ls", "dir", "RM -RF /", "cat package.json",
    "npm install lodash", "tar", "wget http://x", "mkdir -p a", "  ls  -a src ",
    "chmod -R 777 x", "mv /* x", "pwd", "rm -rf build", "killall node",
    "touch x", "head a.txt", "find . | xargs rm -rf" }

IsCommandNotFound(result) ==
    \/ Includes(result.stderr, "is not recognized")
    \/ Includes(result.stderr, "not found")
    \/ Includes(result.stderr, "command not found")
    \/ Includes(result.error, "ENOENT")

ExecIdle(isWindows) ==
    [pc |-> "idle", isWindows |-> isWindows, command |-> "", arg |-> "",
     requireConfirmation |-> TRUE, isRetry |-> FALSE, finalCommand |-> "",
     prompts |-> <<>>, spawned |-> <<>>, results |-> <<>>, result |-> NULL]

\* line 194: runCommand(finalCommand, cwd, timeout) spawns the shell
Spawn(e) == [e EXCEPT !.pc = "running", !.spawned = Append(@, e.finalCommand)]

\* lines 179-194: the generic gate, then the spawn
ConfirmGate(e) ==
    IF e.requireConfirmation /\ ~IsSafeCommand(e.finalCommand)
    THEN [e EXCEPT !.pc = "confirm"]
    ELSE Spawn(e)

\* lines 164-177: the dangerous-command gate
DangerGate(e) ==
    IF IsDangerousCommand(e.finalCommand)
    THEN [e EXCEPT !.pc = "danger"]
    ELSE ConfirmGate(e)

\* lines 144-165: entry of executeCommand(arg, {requireConfirmation, _isRetry})
EnterExecuteCommand(e, arg, isRetry) ==
    LET translated == IF ~isRetry THEN TranslateCommand(arg, e.isWindows) ELSE NULL
        finalCommand == IF ~isRetry /\ translated # NULL /\ translated.v # arg
                        THEN translated.v ELSE arg
    IN DangerGate([e EXCEPT !.arg = arg, !.isRetry = isRetry,
                            !.finalCommand = finalCommand])

\* a caller invokes executeCommand(command, {requireConfirmation})
ExecStart(command, requireConfirmation) ==
    /\ exec.pc \in {"idle", "done"}
    /\ exec' = EnterExecuteCommand(
                  [ExecIdle(exec.isWindows) EXCEPT
                      !.command = command,
                      !.requireConfirmation = requireConfirmation],
                  command, FALSE)

\* the user answers 'Are you absolutely sure you want to run this command?'
AnswerDanger(proceed) ==
    /\ exec.pc = "danger"
    /\ LET e == [exec EXCEPT !.prompts = Append(@, [kind |-> "danger", proceed |-> proceed])]
       IN exec' = IF ~proceed
                  THEN [e EXCEPT !.pc = "done", !.result = Some(CANCELLED_BY_USER)]
                  ELSE ConfirmGate(e)

\* the user answers 'Run this command?'
AnswerConfirm(proceed) ==
    /\ exec.pc = "confirm"
    /\ LET e == [exec EXCEPT !.prompts = Append(@, [kind |-> "confirm", proceed |-> proceed])]
       IN exec' = IF ~proceed
                  THEN [e EXCEPT !.pc = "done", !.result = Some(CANCELLED_BY_USER)]
                  ELSE Spawn(e)

\* a variant that retries whenever a translation exists, without the retry flag
ProcessEndsRetrying(result) ==
    /\ exec.pc = "running"
    /\ LET e == [exec EXCEPT !.results = Append(@, result)]
           translatedCmd == TranslateCommand(e.arg, e.isWindows)
       IN exec' =
            IF ~result.success /\ IsCommandNotFound(result) /\ translatedCmd # NULL
            THEN EnterExecuteCommand(e, translatedCmd.v, FALSE)
            ELSE [e EXCEPT !.pc = "done", !.result = Some(result)]

\* lines 194-212: runCommand resolves with result; retry or return
ProcessEnds(result) ==
    /\ exec.pc = "running"
    /\ LET e == [exec EXCEPT !.results = Append(@, result)]
           translatedCmd == TranslateCommand(e.arg, e.isWindows)
       IN exec' =
            IF /\ ~result.success /\ ~e.isRetry
               /\ IsCommandNotFound(result)
               /\ translatedCmd # NULL /\ translatedCmd.v # e.finalCommand
            THEN EnterExecuteCommand(e, translatedCmd.v, TRUE)
            ELSE [e EXCEPT !.pc = "done", !.result = Some(result)]

IdleTools ==
    /\ files = <<>> /\ dirs = {} /\ last = NULL
    /\ repo = [isRepo |-> FALSE, log |-> <<>>]

IdleChat ==
    /\ pc = "off" /\ messages = <<>> /\ turn = NULL

InitExec ==
    /\ \E isWindows \in BOOLEAN : exec = ExecIdle(isWindows)
    /\ IdleTools /\ IdleChat

ExecFrame == UNCHANGED <<files, dirs, repo, last, pc, messages, turn>>

NextExec ==
    \/ \E command \in Commands, requireConfirmation \in BOOLEAN :
          ExecStart(command, requireConfirmation) /\ ExecFrame
    \/ \E proceed \in BOOLEAN : AnswerDanger(proceed) /\ ExecFrame
    \/ \E proceed \in BOOLEAN : AnswerConfirm(proceed) /\ ExecFrame
    \/ \E result \in RunOutcomes : ProcessEnds(result) /\ ExecFrame

SpecExec == InitExec /\ [][NextExec]_vars

-----------------------------------------------------------------------------
(* String.prototype.replace / replaceAll / split / join, as tools.js uses them *)

\* s.indexOf(t) + 1; 0 when t does not occur
IndexOf(s, t) ==
    IF Includes(s, t)
    THEN CHOOSE i \in 1..(Len(s) - Len(t) + 1) :
            /\ SubSeq(s, i, i + Len(t) - 1) = t
            /\ \A k \in 1..(i - 1) : SubSeq(s, k, k + Len(t) - 1) # t
    ELSE 0

\* the grave accent and the apostrophe
GRAVE == SubSeq("`'", 1, 1)
APOSTROPHE == SubSeq("`'", 2, 2)

\* a replacement string's $-patterns: $$, $&, $ with a grave accent, $ with an
\* apostrophe (a string pattern has no groups)
RECURSIVE ExpandReplacement(_, _, _, _)
ExpandReplacement(repl, matched, before, after) ==
    IF Len(repl) = 0 THEN ""
    ELSE IF Ch(repl, 1) = "$" /\ Len(repl) >= 2
            /\ Ch(repl, 2) \in {"$", "&", GRAVE, APOSTROPHE}
    THEN (CASE Ch(repl, 2) = "$" -> "$"
            [] Ch(repl, 2) = "&" -> matched
            [] Ch(repl, 2) = GRAVE -> before
            [] Ch(repl, 2) = APOSTROPHE -> after)
         \o ExpandReplacement(SubSeq(repl, 3, Len(repl)), matched, before, after)
    ELSE Ch(repl, 1) \o ExpandReplacement(SubSeq(repl, 2, Len(repl)), matched, before, after)

\* s.replace(old, repl) with a string pattern: the first occurrence only
ReplaceFirst(s, old, repl) ==
    LET i == IndexOf(s, old)
    IN IF i = 0 THEN s
       ELSE LET before == SubSeq(s, 1, i - 1)
                after == SubSeq(s, i + Len(old), Len(s))
            IN before \o ExpandReplacement(repl, old, before, after) \o after

\* s.replaceAll(old, repl) with a non-empty string pattern, and s.replace(/old/g, repl)
RECURSIVE ReplaceAllFrom(_, _, _, _)
ReplaceAllFrom(s, from, old, repl) ==
    LET rest == SubSeq(s, from, Len(s))
        i == IndexOf(rest, old)
    IN IF i = 0 \/ Len(old) = 0 THEN rest
       ELSE SubSeq(rest, 1, i - 1)
            \o ExpandReplacement(repl, old, SubSeq(s, 1, from + i - 2),
                                 SubSeq(s, from + i - 1 + Len(old), Len(s)))
            \o ReplaceAllFrom(s, from + i - 1 + Len(old), old, repl)

\* 'abc'.replaceAll('', '-') = '-a-b-c-'
RECURSIVE ReplaceAllEmpty(_, _, _)
ReplaceAllEmpty(s, i, repl) ==
    ExpandReplacement(repl, "", SubSeq(s, 1, i - 1), SubSeq(s, i, Len(s)))
    \o (IF i > Len(s) THEN "" ELSE Ch(s, i) \o ReplaceAllEmpty(s, i + 1, repl))

ReplaceAll(s, old, repl) ==
    IF Len(old) = 0 THEN ReplaceAllEmpty(s, 1, repl) ELSE ReplaceAllFrom(s, 1, old, repl)

\* content.replace(/\r\n/g, '\n')
NormalizeLineEndings(s) == ReplaceAll(s, "\r\n", "\n")

\* a variant that leaves the line feeds as they are
RestoreCRLFNone(s) == s

\* content.replace(/\n/g, '\r\n')
RestoreCRLF(s) == ReplaceAll(s, "\n", "\r\n")

\* s.replace(/[ \t]+/g, ' ')
RECURSIVE CollapseWhitespace(_)
CollapseWhitespace(s) ==
    IF Len(s) = 0 THEN ""
    ELSE IF Ch(s, 1) \in {" ", "\t"}
    THEN IF Len(s) >= 2 /\ Ch(s, 2) \in {" ", "\t"}
         THEN CollapseWhitespace(SubSeq(s, 2, Len(s)))
         ELSE " " \o CollapseWhitespace(SubSeq(s, 2, Len(s)))
    ELSE Ch(s, 1) \o CollapseWhitespace(SubSeq(s, 2, Len(s)))

\* s.split('\n')
RECURSIVE SplitLines(_)
SplitLines(s) ==
    LET i == IndexOf(s, "\n")
    IN IF i = 0 THEN <<s>>
       ELSE <<SubSeq(s, 1, i - 1)>> \o SplitLines(SubSeq(s, i + 1, Len(s)))

\* lines.join('\n')
RECURSIVE JoinLines(_)
JoinLines(lines) ==
    IF Len(lines) = 0 THEN ""
    ELSE IF Len(lines) = 1 THEN lines[1]
    ELSE lines[1] \o "\n" \o JoinLines(Tail(lines))

\* s.slice(0, n)
SliceStr(s, n) == SubSeq(s, 1, Min(n, Len(s)))

-----------------------------------------------------------------------------
(* The filesystem below cwd, as fs/promises and utils/files.js see it *)

\* path.dirname of a relative path; "." is cwd
Dirname(p) ==
    IF Includes(p, "/")
    THEN LET i == CHOOSE j \in 1..Len(p) :
                      Ch(p, j) = "/" /\ \A k \in (j + 1)..Len(p) : Ch(p, k) # "/"
         IN SubSeq(p, 1, i - 1)
    ELSE "."

DirExists(st, d) == d = "." \/ d \in st.dirs

\* fs.mkdir(d, {recursive: true})
FsMkdir(st, d, env) ==
    IF DirExists(st, d) THEN [ok |-> TRUE, st |-> st]
    ELSE IF env.fail = "mkdir" \/ d \in DOMAIN st.files
    THEN [ok |-> FALSE, st |-> st, error |-> "EACCES: permission denied, mkdir"]
    ELSE [ok |-> TRUE, st |-> [st EXCEPT !.dirs = @ \cup {d}]]

\* fs.writeFile(p, content, 'utf-8')
FsWriteFile(st, p, content, env) ==
    IF env.fail = "writeFile" \/ p \in st.dirs \/ ~DirExists(st, Dirname(p))
    THEN [ok |-> FALSE, st |-> st, error |-> "EACCES: permission denied, open"]
    ELSE [ok |-> TRUE, st |-> [st EXCEPT !.files = (p :> content) @@ @]]

\* utils/files.js readFile
ReadFile(st, p, env) ==
    IF p \in DOMAIN st.files /\ env.fail # "readFile"
    THEN [success |-> TRUE, content |-> st.files[p]]
    ELSE IF p \in DOMAIN st.files
    THEN [success |-> FALSE, error |-> "EACCES: permission denied, open"]
    ELSE IF p \in st.dirs
    THEN [success |-> FALSE, error |-> "EISDIR: illegal operation on a directory, read"]
    ELSE [success |-> FALSE, error |-> "ENOENT: no such file or directory, open"]

\* utils/files.js writeFile: the result, the filesystem left, the fs calls made
WriteFile(st, p, content, env) ==
    LET m == FsMkdir(st, Dirname(p), env)
        w == FsWriteFile(m.st, p, content, env)
    IN IF ~m.ok
       THEN [result |-> [success |-> FALSE, error |-> m.error], st |-> st,
             io |-> <<"mkdir">>]
       ELSE IF ~w.ok
       THEN [result |-> [success |-> FALSE, error |-> w.error], st |-> m.st,
             io |-> <<"mkdir", "writeFile">>]
       ELSE [result |-> [success |-> TRUE], st |-> w.st,
             io |-> <<"mkdir", "writeFile">>]

\* the files glob finds below a directory (searchFiles with '**/*', nodir)
FilesUnder(st, d) ==
    {p \in DOMAIN st.files : d = "." \/ StartsWith(p, d \o "/")}

-----------------------------------------------------------------------------
(* tools.js: executeTool, one operator per case of the switch.              *)
(* Each gives what the call leaves: outcome (a returned ToolResult or a     *)
(* raised exception), the filesystem and repository, the confirmation       *)
(* prompts asked with their answers, and the filesystem calls made.         *)

Has(args, field) == field \in DOMAIN args

Returned(result, st, prompts, io) ==
    [outcome |-> [kind |-> "return", result |-> result],
     st |-> st, prompts |-> prompts, io |-> io]

Raised(error, st, prompts, io) ==
    [outcome |-> [kind |-> "throw", error |-> error],
     st |-> st, prompts |-> prompts, io |-> io]

CANCELLED == [success |-> FALSE, error |-> "Cancelled"]

\* resolvePath(undefined): path.isAbsolute raises
ERR_PATH == "TypeError [ERR_INVALID_ARG_TYPE]: The \"path\" argument must be of type string. Received undefined"
\* a method call on undefined
ERR_UNDEFINED == "TypeError: Cannot read properties of undefined"

ReadFileTool(args, autoApprove, env, st) ==
    IF ~Has(args, "path") THEN Raised(ERR_PATH, st, <<>>, <<>>)
    ELSE LET result == ReadFile(st, args.path, env)
         IN IF result.success
            THEN Returned([success |-> TRUE, content |-> result.content], st,
                          <<>>, <<"readFile">>)
            ELSE Returned(result, st, <<>>, <<"readFile">>)

WriteFileTool(args, autoApprove, env, st) ==
    IF ~Has(args, "path") THEN Raised(ERR_PATH, st, <<>>, <<>>)
    ELSE IF ~Has(args, "content") THEN Raised(ERR_UNDEFINED, st, <<>>, <<"readFile">>)
    ELSE IF ~autoApprove /\ ~env.proceed
    THEN Returned(CANCELLED, st, <<FALSE>>, <<"readFile">>)
    ELSE LET prompts == IF autoApprove THEN <<>> ELSE <<TRUE>>
             m == FsMkdir(st, Dirname(args.path), env)
             w == WriteFile(m.st, args.path, args.content, env)
         IN IF ~m.ok
            THEN Raised(m.error, st, prompts, <<"readFile", "mkdir">>)
            ELSE Returned(w.result, w.st, prompts, <<"readFile", "mkdir">> \o w.io)

CreateDirectoryTool(args, autoApprove, env, st) ==
    IF ~Has(args, "path") THEN Raised(ERR_PATH, st, <<>>, <<>>)
    ELSE LET m == FsMkdir(st, args.path, env)
         IN IF ~m.ok THEN Raised(m.error, st, <<>>, <<"mkdir">>)
            ELSE Returned([success |-> TRUE], m.st, <<>>, <<"mkdir">>)

\* fs.rm(p, {recursive: true})
FsRm(st, p, env) ==
    IF env.fail = "rm" \/ ~(p \in DOMAIN st.files \/ p \in st.dirs)
    THEN [ok |-> FALSE, st |-> st, error |-> "ENOENT: no such file or directory, rm"]
    ELSE LET gone == {f \in DOMAIN st.files : f = p \/ StartsWith(f, p \o "/")}
         IN [ok |-> TRUE,
             st |-> [st EXCEPT !.files = [f \in DOMAIN st.files \ gone |-> st.files[f]],
                               !.dirs = @ \ {p}]]

DeleteFileTool(args, autoApprove, env, st) ==
    IF ~Has(args, "path")
    THEN Returned([success |-> FALSE, error |-> "Failed to delete: " \o ERR_PATH],
                  st, <<>>, <<>>)
    ELSE IF ~autoApprove /\ ~env.proceed THEN Returned(CANCELLED, st, <<FALSE>>, <<>>)
    ELSE LET prompts == IF autoApprove THEN <<>> ELSE <<TRUE>>
             r == FsRm(st, args.path, env)
         IN IF ~r.ok
            THEN Returned([success |-> FALSE, error |-> "Failed to delete: " \o r.error],
                          st, prompts, <<"rm">>)
            ELSE Returned([success |-> TRUE], r.st, prompts, <<"rm">>)

\* fs.rename(source, dest) of a file
FsRename(st, source, dest, env) ==
    IF env.fail = "rename" \/ source \notin DOMAIN st.files \/ dest \in st.dirs
    THEN [ok |-> FALSE, st |-> st, error |-> "ENOENT: no such file or directory, rename"]
    ELSE [ok |-> TRUE,
          st |-> [st EXCEPT !.files =
                     [f \in (DOMAIN st.files \ {source}) \cup {dest} |->
                         IF f = dest THEN st.files[source] ELSE st.files[f]]]]

\* fs.copyFile(source, dest)
FsCopyFile(st, source, dest, env) ==
    IF env.fail = "copyFile" \/ source \notin DOMAIN st.files \/ dest \in st.dirs
    THEN [ok |-> FALSE, st |-> st, error |-> "ENOENT: no such file or directory, copyfile"]
    ELSE [ok |-> TRUE, st |-> [st EXCEPT !.files = (dest :> st.files[source]) @@ @]]

MoveFileTool(args, autoApprove, env, st) ==
    IF ~Has(args, "source") \/ ~Has(args, "destination")
    THEN Returned([success |-> FALSE, error |-> "Failed to move: " \o ERR_PATH],
                  st, <<>>, <<>>)
    ELSE LET m == FsMkdir(st, Dirname(args.destination), env)
             r == FsRename(m.st, args.source, args.destination, env)
         IN IF ~m.ok
            THEN Returned([success |-> FALSE, error |-> "Failed to move: " \o m.error],
                          st, <<>>, <<"mkdir">>)
            ELSE IF ~r.ok
            THEN Returned([success |-> FALSE, error |-> "Failed to move: " \o r.error],
                          m.st, <<>>, <<"mkdir", "rename">>)
            ELSE Returned([success |-> TRUE], r.st, <<>>, <<"mkdir", "rename">>)

CopyFileTool(args, autoApprove, env, st) ==
    IF ~Has(args, "source") \/ ~Has(args, "destination")
    THEN Returned([success |-> FALSE, error |-> "Failed to copy: " \o ERR_PATH],
                  st, <<>>, <<>>)
    ELSE LET m == FsMkdir(st, Dirname(args.destination), env)
             r == FsCopyFile(m.st, args.source, args.destination, env)
         IN IF ~m.ok
            THEN Returned([success |-> FALSE, error |-> "Failed to copy: " \o m.error],
                          st, <<>>, <<"mkdir">>)
            ELSE IF ~r.ok
            THEN Returned([success |-> FALSE, error |-> "Failed to copy: " \o r.error],
                          m.st, <<>>, <<"mkdir", "copyFile">>)
            ELSE Returned([success |-> TRUE], r.st, <<>>, <<"mkdir", "copyFile">>)

\* fs.appendFile(p, content)
AppendFileTool(args, autoApprove, env, st) ==
    IF ~Has(args, "path")
    THEN Returned([success |-> FALSE, error |-> "Failed to append: " \o ERR_PATH],
                  st, <<>>, <<>>)
    ELSE LET m == FsMkdir(st, Dirname(args.path), env)
             old == IF args.path \in DOMAIN m.st.files THEN m.st.files[args.path] ELSE ""
         IN IF ~m.ok
            THEN Returned([success |-> FALSE, error |-> "Failed to append: " \o m.error],
                          st, <<>>, <<"mkdir">>)
            ELSE IF ~Has(args, "content") \/ env.fail = "appendFile" \/ args.path \in m.st.dirs
            THEN Returned([success |-> FALSE,
                           error |-> "Failed to append: " \o
                                     (IF ~Has(args, "content")
                                      THEN "The \"data\" argument must be of type string"
                                      ELSE "EACCES: permission denied, open")],
                          m.st, <<>>, <<"mkdir", "appendFile">>)
            ELSE Returned([success |-> TRUE],
                          [m.st EXCEPT !.files = (args.path :> (old \o args.content)) @@ @],
                          <<>>, <<"mkdir", "appendFile">>)

\* a variant with a generic failure message
NoMatchErrorGeneric(normalizedFileContent, normalizedOldContent) == "Edit failed"

\* edit_file, lines 573-588: the no-match diagnostic
NoMatchError(normalizedFileContent, normalizedOldContent) ==
    LET searchLine == SliceStr(Trim(SplitLines(normalizedOldContent)[1]), 20)
        needle == SliceStr(ToLowerCase(searchLine), 10)
        lines == SplitLines(normalizedFileContent)
        similar(i) == Includes(ToLowerCase(lines[i]), needle)
        hint == IF \E i \in 1..Len(lines) : similar(i)
                THEN LET i == CHOOSE j \in 1..Len(lines) :
                                  similar(j) /\ \A k \in 1..(j - 1) : ~similar(k)
                     IN "\nSimilar at line " \o ToString(i) \o ": \""
                        \o SliceStr(Trim(lines[i]), 60) \o "\""
                ELSE ""
    IN "Content not found in file." \o hint
       \o "\nTip: Use read_file first, then copy the EXACT text to edit."

\* edit_file, lines 529-543: the first window of the whitespace tier, 0 if none
WhitespaceWindow(lines, oldLines) ==
    LET matches(i) == \A j \in 1..Len(oldLines) :
                          Trim(CollapseWhitespace(lines[i + j - 1]))
                              = Trim(CollapseWhitespace(oldLines[j]))
        starts == {i \in 1..(Len(lines) - Len(oldLines) + 1) : matches(i)}
    IN IF starts = {} THEN 0
       ELSE CHOOSE i \in starts : \A k \in starts : i <= k

\* edit_file, lines 545-554: the splice of the whitespace tier
WhitespaceSplice(lines, oldLines, startIdx, normalizedNewContent) ==
    LET before == JoinLines(SubSeq(lines, 1, startIdx - 1))
        after == JoinLines(SubSeq(lines, startIdx + Len(oldLines), Len(lines)))
    IN before \o (IF before # "" THEN "\n" ELSE "") \o normalizedNewContent
       \o (IF after # "" THEN "\n" ELSE "") \o after

\* a variant that writes before it asks
ConfirmAndWriteEager(path, resultContent, autoApprove, env, st) ==
    LET w == WriteFile(st, path, resultContent, env)
    IN IF ~autoApprove /\ ~env.proceed
       THEN Returned(CANCELLED, w.st, <<FALSE>>, <<"readFile">> \o w.io)
       ELSE Returned(w.result, w.st, IF autoApprove THEN <<>> ELSE <<TRUE>>,
                     <<"readFile">> \o w.io)

\* edit_file, lines 508-517 and 560-569: prompt, writeFile, return its result
ConfirmAndWrite(path, resultContent, autoApprove, env, st) ==
    IF ~autoApprove /\ ~env.proceed
    THEN Returned(CANCELLED, st, <<FALSE>>, <<"readFile">>)
    ELSE LET w == WriteFile(st, path, resultContent, env)
         IN Returned(w.result, w.st, IF autoApprove THEN <<>> ELSE <<TRUE>>,
                     <<"readFile">> \o w.io)

EditFileTool(args, autoApprove, env, st) ==
    IF ~Has(args, "path") \/ args.path = ""
    THEN Returned([success |-> FALSE, error |-> "Missing required argument: path"],
                  st, <<>>, <<>>)
    ELSE IF ~Has(args, "old_content")
    THEN Returned([success |-> FALSE, error |-> "Missing required argument: old_content"],
                  st, <<>>, <<>>)
    ELSE IF ~Has(args, "new_content")
    THEN Returned([success |-> FALSE, error |-> "Missing required argument: new_content"],
                  st, <<>>, <<>>)
    ELSE LET existing == ReadFile(st, args.path, env)
         IN IF ~existing.success
            THEN Returned([success |-> FALSE, error |-> "File not found: " \o args.path],
                          st, <<>>, <<"readFile">>)
            ELSE
            LET content == existing.content
                hasCRLF == Includes(content, "\r\n")
                normalizedFileContent == NormalizeLineEndings(content)
                normalizedOldContent == NormalizeLineEndings(args.old_content)
                normalizedNewContent == NormalizeLineEndings(args.new_content)
                exact == ReplaceFirst(normalizedFileContent, normalizedOldContent,
                                      normalizedNewContent)
                wsNormalizedContent == CollapseWhitespace(normalizedFileContent)
                wsNormalizedOld == CollapseWhitespace(normalizedOldContent)
                lines == SplitLines(normalizedFileContent)
                oldLines == SplitLines(normalizedOldContent)
                startIdx == WhitespaceWindow(lines, oldLines)
                fuzzy == WhitespaceSplice(lines, oldLines, startIdx, normalizedNewContent)
            IN IF Includes(normalizedFileContent, normalizedOldContent)
               THEN ConfirmAndWrite(args.path,
                                    IF hasCRLF THEN RestoreCRLF(exact) ELSE exact,
                                    autoApprove, env, st)
               ELSE IF Includes(wsNormalizedContent, wsNormalizedOld) /\ startIdx > 0
               THEN ConfirmAndWrite(args.path,
                                    IF hasCRLF THEN RestoreCRLF(fuzzy) ELSE fuzzy,
                                    autoApprove, env, st)
               ELSE Returned([success |-> FALSE,
                              error |-> NoMatchError(normalizedFileContent,
                                                     normalizedOldContent)],
                             st, <<>>, <<"readFile">>)

\* a variant that tries the first edit only
ApplyEditsFirst(content, edits, editCount) ==
    IF Len(edits) > 0 /\ Includes(content, NormalizeLineEndings(edits[1].old_content))
    THEN [raised |-> FALSE,
          content |-> ReplaceFirst(content, NormalizeLineEndings(edits[1].old_content),
                                   NormalizeLineEndings(edits[1].new_content)),
          editCount |-> editCount + 1]
    ELSE [raised |-> FALSE, content |-> content, editCount |-> editCount]

\* multi_edit_file, lines 936-945: the loop over args.edits on the running copy;
\* an edit without old_content or new_content raises inside the try
RECURSIVE ApplyEdits(_, _, _)
ApplyEdits(content, edits, editCount) ==
    IF Len(edits) = 0 THEN [raised |-> FALSE, content |-> content, editCount |-> editCount]
    ELSE IF ~Has(edits[1], "old_content") \/ ~Has(edits[1], "new_content")
    THEN [raised |-> TRUE, content |-> content, editCount |-> editCount]
    ELSE LET normalizedOld == NormalizeLineEndings(edits[1].old_content)
             normalizedNew == NormalizeLineEndings(edits[1].new_content)
         IN IF Includes(content, normalizedOld)
            THEN ApplyEdits(ReplaceFirst(content, normalizedOld, normalizedNew),
                            Tail(edits), editCount + 1)
            ELSE ApplyEdits(content, Tail(edits), editCount)

MultiEditFileTool(args, autoApprove, env, st) ==
    IF ~Has(args, "path")
    THEN Returned([success |-> FALSE, error |-> ERR_PATH], st, <<>>, <<>>)
    ELSE LET existing == ReadFile(st, args.path, env)
         IN IF ~existing.success
            THEN Returned([success |-> FALSE, error |-> "File not found: " \o args.path],
                          st, <<>>, <<"readFile">>)
            ELSE IF ~Has(args, "edits")
            THEN Returned([success |-> FALSE, error |-> "args.edits is not iterable"],
                          st, <<>>, <<"readFile">>)
            ELSE
            LET hasCRLF == Includes(existing.content, "\r\n")
                done == ApplyEdits(NormalizeLineEndings(existing.content), args.edits, 0)
                content == IF hasCRLF THEN RestoreCRLF(done.content) ELSE done.content
                w == WriteFile(st, args.path, content, env)
            IN IF done.raised
               THEN Returned([success |-> FALSE, error |-> ERR_UNDEFINED],
                             st, <<>>, <<"readFile">>)
               ELSE IF done.editCount = 0
               THEN Returned([success |-> FALSE,
                              error |-> "No matching content found for any edits"],
                             st, <<>>, <<"readFile">>)
               ELSE IF ~autoApprove /\ ~env.proceed
               THEN Returned(CANCELLED, st, <<FALSE>>, <<"readFile">>)
               ELSE Returned([success |-> TRUE, editsApplied |-> done.editCount],
                             w.st, IF autoApprove THEN <<>> ELSE <<TRUE>>,
                             <<"readFile">> \o w.io)

\* lines.splice(start, 0, item) with start = args.line - 1 (NaN when line is missing)
SpliceInsert(lines, line, item) ==
    LET len == Len(lines)
        start == IF line = NULL THEN 0
                 ELSE IF line.v - 1 < 0
                      THEN (IF len + line.v - 1 < 0 THEN 0 ELSE len + line.v - 1)
                 ELSE Min(line.v - 1, len)
    IN SubSeq(lines, 1, start) \o <<item>> \o SubSeq(lines, start + 1, len)

InsertAtLineTool(args, autoApprove, env, st) ==
    IF ~Has(args, "path")
    THEN Returned([success |-> FALSE, error |-> "Failed to insert: " \o ERR_PATH],
                  st, <<>>, <<>>)
    ELSE LET fileContent == ReadFile(st, args.path, env)
         IN IF ~fileContent.success THEN Returned(fileContent, st, <<>>, <<"readFile">>)
            ELSE IF ~Has(args, "content")
            THEN Returned([success |-> FALSE,
                           error |-> "Failed to insert: " \o ERR_UNDEFINED],
                          st, <<>>, <<"readFile">>)
            ELSE
            LET hasCRLF == Includes(fileContent.content, "\r\n")
                lines == SplitLines(NormalizeLineEndings(fileContent.content))
                spliced == SpliceInsert(lines,
                                        IF Has(args, "line") THEN Some(args.line) ELSE NULL,
                                        NormalizeLineEndings(args.content))
                joined == JoinLines(spliced)
                resultContent == IF hasCRLF THEN RestoreCRLF(joined) ELSE joined
                w == WriteFile(st, args.path, resultContent, env)
            IN IF ~autoApprove /\ ~env.proceed
               THEN Returned(CANCELLED, st, <<FALSE>>, <<"readFile">>)
               ELSE Returned([success |-> TRUE], w.st,
                             IF autoApprove THEN <<>> ELSE <<TRUE>>,
                             <<"readFile">> \o w.io)

\* find_replace, lines 681-697: the loop over the files found
RECURSIVE ReplaceInFiles(_, _, _, _, _, _, _)
ReplaceInFiles(todo, normalizedFind, normalizedReplace, env, st, count, io) ==
    IF todo = {} THEN [st |-> st, count |-> count, io |-> io]
    ELSE LET file == CHOOSE f \in todo : TRUE
             content == ReadFile(st, file, env)
             hasCRLF == Includes(content.content, "\r\n")
             normalizedContent == NormalizeLineEndings(content.content)
             replaced == ReplaceAll(normalizedContent, normalizedFind, normalizedReplace)
             newContent == IF hasCRLF THEN RestoreCRLF(replaced) ELSE replaced
             w == WriteFile(st, file, newContent, env)
         IN IF content.success /\ Includes(normalizedContent, normalizedFind)
            THEN ReplaceInFiles(todo \ {file}, normalizedFind, normalizedReplace, env,
                                w.st, count + 1, io \o <<"readFile">> \o w.io)
            ELSE ReplaceInFiles(todo \ {file}, normalizedFind, normalizedReplace, env,
                                st, count, io \o <<"readFile">>)

FindReplaceTool(args, autoApprove, env, st) ==
    LET found == FilesUnder(st, IF Has(args, "path") THEN args.path ELSE ".")
        done == ReplaceInFiles(found, NormalizeLineEndings(args.find),
                               NormalizeLineEndings(args.replace), env, st, 0, <<"glob">>)
    IN IF ~Has(args, "find") \/ ~Has(args, "replace")
       THEN Returned([success |-> FALSE, error |-> ERR_UNDEFINED], st, <<>>, <<"glob">>)
       ELSE IF ~autoApprove /\ ~env.proceed
       THEN Returned(CANCELLED, st, <<FALSE>>, <<"glob">>)
       ELSE Returned([success |-> TRUE, filesModified |-> done.count], done.st,
                     IF autoApprove THEN <<>> ELSE <<TRUE>>, done.io)

\* utils/files.js listDirectory (not recursive): the entries of the directory
ListDirectoryTool(args, autoApprove, env, st) ==
    LET d == IF Has(args, "path") THEN args.path ELSE "."
        items == IF DirExists(st, d)
                 THEN {p \in DOMAIN st.files : Dirname(p) = d}
                      \cup (IF d = "." THEN st.dirs ELSE {})
                 ELSE {}
    IN Returned([success |-> TRUE, items |-> items], st, <<>>, <<"readdir">>)

\* utils/git.js getGitInfo: null outside a repository or when git fails
GetGitInfo(st, env) ==
    IF ~st.repo.isRepo \/ env.fail = "git" THEN NULL
    ELSE Some([branch |-> "main", commits |-> Len(st.repo.log)])

GitStatusTool(args, autoApprove, env, st) ==
    LET info == GetGitInfo(st, env)
    IN Returned(IF info = NULL THEN [success |-> TRUE]
                ELSE [success |-> TRUE, branch |-> info.v.branch,
                      commits |-> info.v.commits],
                st, <<>>, <<>>)

\* utils/git.js getGitDiff: '' outside a repository or when git fails
GitDiffTool(args, autoApprove, env, st) ==
    Returned([success |-> TRUE,
              diff |-> IF ~st.repo.isRepo \/ env.fail = "git" THEN "" ELSE "diff --git"],
             st, <<>>, <<>>)

\* the lines git log --oneline -n count prints, newest commit first
RECURSIVE OneLine(_, _)
OneLine(log, count) ==
    IF count = 0 \/ Len(log) = 0 THEN ""
    ELSE log[Len(log)] \o "\n" \o OneLine(SubSeq(log, 1, Len(log) - 1), count - 1)

GitLogTool(args, autoApprove, env, st) ==
    LET count == IF Has(args, "count") /\ args.count # 0 THEN args.count ELSE 10
    IN IF ~st.repo.isRepo \/ st.repo.log = <<>> \/ env.fail = "git"
       THEN Returned([success |-> FALSE, error |-> "Not a git repository"], st, <<>>, <<>>)
       ELSE Returned([success |-> TRUE, content |-> Trim(OneLine(st.repo.log, count))],
                     st, <<>>, <<>>)

GitCommitTool(args, autoApprove, env, st) ==
    LET message == IF Has(args, "message") THEN args.message ELSE "undefined"
        prompts == IF autoApprove THEN <<>> ELSE <<TRUE>>
    IN IF ~autoApprove /\ ~env.proceed THEN Returned(CANCELLED, st, <<FALSE>>, <<>>)
       ELSE IF ~st.repo.isRepo \/ env.fail = "git"
       THEN Returned([success |-> FALSE, error |-> "Command failed: git add -A && git commit"],
                     st, prompts, <<>>)
       ELSE Returned([success |-> TRUE],
                     [st EXCEPT !.repo.log = Append(@, message)], prompts, <<>>)

UnknownTool(toolName, st) ==
    Returned([success |-> FALSE, error |-> "Unknown tool: " \o toolName], st, <<>>, <<>>)

\* executeTool: the switch on toolName (run_command is the executor's machine)
ExecuteTool(toolName, args, autoApprove, env, st) ==
    CASE toolName = "read_file" -> ReadFileTool(args, autoApprove, env, st)
      [] toolName = "write_file" -> WriteFileTool(args, autoApprove, env, st)
      [] toolName = "edit_file" -> EditFileTool(args, autoApprove, env, st)
      [] toolName = "list_directory" -> ListDirectoryTool(args, autoApprove, env, st)
      [] toolName = "git_status" -> GitStatusTool(args, autoApprove, env, st)
      [] toolName = "git_diff" -> GitDiffTool(args, autoApprove, env, st)
      [] toolName = "find_replace" -> FindReplaceTool(args, autoApprove, env, st)
      [] toolName = "create_directory" -> CreateDirectoryTool(args, autoApprove, env, st)
      [] toolName = "delete_file" -> DeleteFileTool(args, autoApprove, env, st)
      [] toolName = "move_file" -> MoveFileTool(args, autoApprove, env, st)
      [] toolName = "copy_file" -> CopyFileTool(args, autoApprove, env, st)
      [] toolName = "append_file" -> AppendFileTool(args, autoApprove, env, st)
      [] toolName = "insert_at_line" -> InsertAtLineTool(args, autoApprove, env, st)
      [] toolName = "git_log" -> GitLogTool(args, autoApprove, env, st)
      [] toolName = "git_commit" -> GitCommitTool(args, autoApprove, env, st)
      [] toolName = "multi_edit_file" -> MultiEditFileTool(args, autoApprove, env, st)
      [] OTHER -> UnknownTool(toolName, st)

-----------------------------------------------------------------------------
(* One executeTool call on a working directory.                              *)

\* TOOLS: the fields each declaration lists as required
REQUIRED(toolName) ==
    CASE toolName \in {"read_file", "list_directory", "create_directory", "delete_file"}
            -> {"path"}
      [] toolName \in {"write_file", "append_file"} -> {"path", "content"}
      [] toolName = "edit_file" -> {"path", "old_content", "new_content"}
      [] toolName = "run_command" -> {"command"}
      [] toolName = "find_replace" -> {"find", "replace"}
      [] toolName \in {"move_file", "copy_file"} -> {"source", "destination"}
      [] toolName = "insert_at_line" -> {"path", "line", "content"}
      [] toolName = "git_commit" -> {"message"}
      [] toolName = "multi_edit_file" -> {"path", "edits"}
      [] OTHER -> {}

\* working directories a call can find
ProjectDir ==
    [files |-> ("a.txt" :> "x = 1\ny  =  2\n") @@ ("w.txt" :> "p\r\nq  r\r\n")
               @@ ("d/b.txt" :> "x = 1") @@ ("m.txt" :> "cost: $$5\n"),
     dirs |-> {"d"},
     repo |-> [isRepo |-> TRUE, log |-> <<"init", "add a">>]]

EmptyDir ==
    [files |-> <<>>, dirs |-> {}, repo |-> [isRepo |-> FALSE, log |-> <<>>]]

WorkingDirs == {ProjectDir, EmptyDir}

Call(toolName, args) == [toolName |-> toolName, args |-> args]

\* invocations with every declared field present
CompleteCalls == {
    Call("read_file", [path |-> "a.txt"]),
    Call("read_file", [path |-> "nope.txt"]),
    Call("write_file", [path |-> "a.txt", content |-> "z"]),
    Call("write_file", [path |-> "new/n.txt", content |-> "l1\nl2"]),
    Call("edit_file", [path |-> "a.txt", old_content |-> "x = 1", new_content |-> "x = 2"]),
    Call("edit_file", [path |-> "a.txt", old_content |-> "y = 2", new_content |-> "y = 3"]),
    Call("edit_file", [path |-> "a.txt", old_content |-> "q", new_content |-> "r"]),
    Call("edit_file", [path |-> "w.txt", old_content |-> "p\nq", new_content |-> "p\ns"]),
    Call("edit_file", [path |-> "w.txt", old_content |-> "p\r\n", new_content |-> "p\r\n"]),
    Call("edit_file", [path |-> "w.txt", old_content |-> "q r", new_content |-> "q\ns"]),
    Call("edit_file", [path |-> "m.txt", old_content |-> "$$", new_content |-> "$$"]),
    Call("edit_file", [path |-> "a.txt", old_content |-> "x = 1 ", new_content |-> "x = 2"]),
    Call("edit_file", [path |-> "d/b.txt", old_content |-> "x  = 1", new_content |-> "x = 5"]),
    Call("list_directory", [path |-> "d"]),
    Call("run_command", [command |-> "ls"]),
    Call("run_command", [command |-> "npm test"]),
    Call("run_command", [command |-> "rm -rf build"]),
    Call("git_status", <<>>),
    Call("git_diff", <<>>),
    Call("find_replace", [find |-> "x", replace |-> "u", path |-> "d"]),
    Call("create_directory", [path |-> "e"]),
    Call("delete_file", [path |-> "a.txt"]),
    Call("delete_file", [path |-> "d"]),
    Call("move_file", [source |-> "a.txt", destination |-> "b.txt"]),
    Call("move_file", [source |-> "a.txt", destination |-> "d/b.txt"]),
    Call("copy_file", [source |-> "a.txt", destination |-> "w.txt"]),
    Call("copy_file", [source |-> "a.txt", destination |-> "new/c.txt"]),
    Call("append_file", [path |-> "a.txt", content |-> "z"]),
    Call("insert_at_line", [path |-> "a.txt", line |-> 2, content |-> "i"]),
    Call("git_log", <<>>),
    Call("git_commit", [message |-> "wip"]),
    Call("multi_edit_file", [path |-> "a.txt",
                             edits |-> << [old_content |-> "x", new_content |-> "v"],
                                          [old_content |-> "none", new_content |-> "n"] >>]),
    Call("multi_edit_file", [path |-> "w.txt",
                             edits |-> << [old_content |-> "p", new_content |-> "a\nb"] >>]),
    Call("multi_edit_file", [path |-> "a.txt",
                             edits |-> << [old_content |-> "x = 1", new_content |-> "x = 2"],
                                          [old_content |-> "x = 2", new_content |-> "x = 3"],
                                          [old_content |-> "x = 1", new_content |-> "x = 4"] >>]),
    Call("multi_edit_file", [path |-> "a.txt",
                             edits |-> << [old_content |-> "y = 2", new_content |-> "y = 3"],
                                          [old_content |-> "x = 1", new_content |-> "x = 9"] >>]),
    Call("multi_edit_file", [path |-> "a.txt",
                             edits |-> << [old_content |-> "q", new_content |-> "r"],
                                          [old_content |-> "y = 2", new_content |-> "z"] >>]),
    Call("frobnicate", <<>>) }

Without(args, field) == [f \in DOMAIN args \ {field} |-> args[f]]

\* the same invocations with one declared field left out
IncompleteCalls ==
    {Call(c.toolName, Without(c.args, field)) :
        c \in CompleteCalls, field \in {"path", "content", "old_content", "new_content",
                                        "command", "find", "replace", "source",
                                        "destination", "line", "message", "edits"}}
    \ CompleteCalls

Invocations == CompleteCalls \cup IncompleteCalls

MissingField(call) == REQUIRED(call.toolName) \ DOMAIN call.args

Faults == {"none", "readFile", "mkdir", "writeFile", "rm", "rename", "copyFile",
           "appendFile", "git"}

Envs == [proceed : BOOLEAN, fail : Faults]

\* a call during which no filesystem or git call fails
NoFault == [proceed |-> TRUE, fail |-> "none"]

WorkDir == [files |-> files, dirs |-> dirs, repo |-> repo]

\* what a settled call leaves behind: the working directory and the record of the call
Leave(call, autoApprove, env, r) ==
    /\ files' = r.st.files
    /\ dirs' = r.st.dirs
    /\ repo' = r.st.repo
    /\ last' = [call |-> call, autoApprove |-> autoApprove, before |-> WorkDir,
                env |-> env,
                outcome |-> r.outcome, prompts |-> r.prompts, io |-> r.io]

\* executeTool(toolName, args, cwd, {autoApprove}) for every tool but run_command
ToolCall(call, autoApprove, env) ==
    /\ last = NULL
    /\ call.toolName # "run_command"
    /\ Leave(call, autoApprove, env,
             ExecuteTool(call.toolName, call.args, autoApprove, env, WorkDir))
    /\ UNCHANGED <<exec, pc, messages, turn>>

\* case 'run_command': return await executeCommand(args.command, ...), where e is
\* the executor once it has resolved; translateCommand(undefined) raises on
\* command.trim()
RunCommandTool(args, e, st) ==
    IF ~Has(args, "command") THEN Raised(ERR_UNDEFINED, st, <<>>, <<>>)
    ELSE Returned(e.result.v, st,
                  [i \in 1..Len(e.prompts) |-> e.prompts[i].proceed], <<>>)

\* executeTool('run_command', args, cwd, {autoApprove}) enters executeCommand
RunCommandCall(call, autoApprove) ==
    /\ last = NULL
    /\ call.toolName = "run_command"
    /\ IF Has(call.args, "command")
       THEN /\ ExecStart(call.args.command, ~autoApprove)
            /\ last' = [call |-> call, autoApprove |-> autoApprove, before |-> WorkDir,
                        env |-> NoFault,
                        outcome |-> [kind |-> "pending"], prompts |-> <<>>, io |-> <<>>]
       ELSE /\ last' = [call |-> call, autoApprove |-> autoApprove, before |-> WorkDir,
                        env |-> NoFault,
                        outcome |-> RunCommandTool(call.args, exec, WorkDir).outcome,
                        prompts |-> <<>>, io |-> <<>>]
            /\ UNCHANGED exec
    /\ UNCHANGED <<files, dirs, repo, pc, messages, turn>>

\* executeCommand resolves and run_command returns its result
RunCommandReturn ==
    /\ last # NULL
    /\ last.outcome.kind = "pending"
    /\ exec.pc = "done"
    /\ LET r == RunCommandTool(last.call.args, exec, WorkDir)
       IN last' = [last EXCEPT !.outcome = r.outcome, !.prompts = r.prompts]
    /\ UNCHANGED <<exec, files, dirs, repo, pc, messages, turn>>

InitTools ==
    /\ \E isWindows \in BOOLEAN : exec = ExecIdle(isWindows)
    /\ \E wd \in WorkingDirs : files = wd.files /\ dirs = wd.dirs /\ repo = wd.repo
    /\ last = NULL
    /\ IdleChat

NextTools ==
    \/ \E call \in Invocations, autoApprove \in BOOLEAN, env \in Envs :
          ToolCall(call, autoApprove, env)
    \/ \E call \in Invocations, autoApprove \in BOOLEAN : RunCommandCall(call, autoApprove)
    \/ \E proceed \in BOOLEAN : AnswerDanger(proceed) /\ ExecFrame
    \/ \E proceed \in BOOLEAN : AnswerConfirm(proceed) /\ ExecFrame
    \/ \E result \in RunOutcomes : ProcessEnds(result) /\ ExecFrame
    \/ RunCommandReturn

SpecTools == InitTools /\ [][NextTools]_vars

(* C1: for every command c with isDangerousCommand(c), on either platform   *)
(* and with requireConfirmation true or false, no process is spawned unless *)
(* the user answered yes to the dangerous-command prompt; a no answer       *)
(* returns success=false and spawns nothing.                                *)
AnsweredDanger(proceed) ==
    \E i \in 1..Len(exec.prompts) :
        exec.prompts[i] = [kind |-> "danger", proceed |-> proceed]

C1_DangerousNeedsYes ==
    /\ (IsDangerousCommand(exec.command) /\ exec.spawned # <<>>)
          => AnsweredDanger(TRUE)
    /\ AnsweredDanger(FALSE)
          => exec.result = Some(CANCELLED_BY_USER) /\ exec.spawned = <<>>

(* C5: when the first attempt fails with a command-not-found signature and  *)
(* the translator has a translation for the command, executeCommand runs    *)
(* the translated form exactly one more time, and never a further attempt.  *)
C5_RetriedExactlyOnce ==
    /\ Len(exec.spawned) <= 2
    /\ ( /\ exec.pc = "done"
         /\ Len(exec.results) >= 1
         /\ ~exec.results[1].success
         /\ IsCommandNotFound(exec.results[1])
         /\ TranslateCommand(exec.command, exec.isWindows) # NULL )
       => /\ Len(exec.spawned) = 2
          /\ exec.spawned[2] = TranslateCommand(exec.command, exec.isWindows).v

-----------------------------------------------------------------------------
(* chat.js: startChat, the main loop.  A text is a sequence of segments:     *)
(* plain runs and fenced JSON blocks.                                        *)

MaxTurns == 2

TOOL_RESULT_LIMIT == 3000

Plain(body) == <<[kind |-> "text", body |-> body]>>

\* ```json {"tool": ..., "arguments": ...} ```
Fence(tool, arguments) ==
    <<[kind |-> "fence", json |-> Some([tool |-> tool, arguments |-> arguments])]>>

\* a fenced object without "arguments", and a fence whose payload is not JSON
FenceNoArguments(tool) == <<[kind |-> "fence", json |-> Some([tool |-> tool])]>>
FenceBroken == <<[kind |-> "fence", json |-> NULL]>>

\* a text longer than TOOL_RESULT_LIMIT
Digits == "0123456789"
Hundred == Digits \o Digits \o Digits \o Digits \o Digits
           \o Digits \o Digits \o Digits \o Digits \o Digits
Thousand == Hundred \o Hundred \o Hundred \o Hundred \o Hundred
            \o Hundred \o Hundred \o Hundred \o Hundred \o Hundred
LongText == Thousand \o Thousand \o Thousand \o Digits

\* the working directory the chat session starts in
ChatDir ==
    [files |-> ("a.txt" :> "x = 1") @@ ("big.txt" :> LongText) @@ ("empty.txt" :> ""),
     dirs |-> {},
     repo |-> [isRepo |-> FALSE, log |-> <<>>]]

\* what the model can answer
Responses == {
    Plain("Hello."),
    Plain("Writing.") \o Fence("write_file", [path |-> "a.txt", content |-> "new"])
        \o Fence("read_file", [path |-> "a.txt"]),
    Fence("read_file", [path |-> "big.txt"]) \o Plain("Reading."),
    Fence("write_file", [content |-> "c"]) \o Fence("read_file", [path |-> "a.txt"]),
    Fence("read_file", [path |-> "nope.txt"]) \o Fence("read_file", [path |-> "a.txt"]),
    Fence("frobnicate", <<>>) \o Fence("read_file", [path |-> "empty.txt"]),
    FenceBroken \o FenceNoArguments("read_file") \o Plain("Oops."),
    Fence("run_command", [command |-> "rm -rf build"]) }

Inputs == {"", "  ", " fix a.txt ", "/clear", "/help", "/EXIT", "/load s1", "/load zz"}

\* utils/history.js loadConversation: the saved conversations
SavedConversations ==
    "s1" :> [messages |-> << [role |-> "user", content |-> Plain("old")],
                             [role |-> "assistant", content |-> Plain("reply")] >>]

ChatEnvs == [proceed : BOOLEAN, fail : {"none", "readFile", "writeFile"}]

\* parseToolCalls, format 1: the fenced objects that parse and carry tool and arguments
ParseToolCalls(response) ==
    LET IsCall(seg) == /\ seg.kind = "fence"
                       /\ seg.json # NULL
                       /\ {"tool", "arguments"} \subseteq DOMAIN seg.json.v
                       /\ seg.json.v.tool # ""
        found == SelectSeq(response, IsCall)
    IN [i \in 1..Len(found) |->
           [name |-> found[i].json.v.tool, arguments |-> found[i].json.v.arguments]]

\* input.slice(1).split(' ')
RECURSIVE SplitSpace(_)
SplitSpace(s) ==
    IF ~Includes(s, " ") THEN <<s>>
    ELSE LET i == IndexOf(s, " ")
         IN <<SubSeq(s, 1, i - 1)>> \o SplitSpace(SubSeq(s, i + 1, Len(s)))

\* handleCommand(input, ctx): what it returns and the history it leaves
HandleCommand(input, history) ==
    LET parts == SplitSpace(SubSeq(input, 2, Len(input)))
        command == ToLowerCase(parts[1])
        args == Tail(parts)
    IN CASE command \in {"exit", "quit", "q"} -> [handled |-> "exit", messages |-> history]
         [] command = "clear" -> [handled |-> "null", messages |-> <<>>]
         [] command = "load" /\ Len(args) > 0 /\ args[1] # ""
                /\ args[1] \in DOMAIN SavedConversations
              -> [handled |-> "null", messages |-> SavedConversations[args[1]].messages]
         [] OTHER -> [handled |-> "null", messages |-> history]

NoTurn(enableTools) ==
    [n |-> 0, status |-> "none", enableTools |-> enableTools, base |-> <<>>,
     input |-> "", fullResponse |-> <<>>, toolCalls |-> <<>>, next |-> 1,
     inflight |-> {}, started |-> <<>>, results |-> <<>>, modelCalls |-> 0,
     batches |-> 0]

\* line 649: provider.stream(messagesWithSystem, {})
CallModel(t) == [t EXCEPT !.modelCalls = @ + 1]

\* lines 561-652: one input is read; empty input and slash commands loop back to the
\* prompt, anything else is pushed to the history and sent to the model
ReadInput(input) ==
    /\ pc = "idle"
    /\ LET trimmedInput == Trim(input)
       IN IF trimmedInput = ""
          THEN UNCHANGED <<pc, messages, turn>>
          ELSE IF StartsWith(trimmedInput, "/")
          THEN LET handled == HandleCommand(trimmedInput, messages)
               IN /\ pc' = IF handled.handled = "exit" THEN "exited" ELSE "idle"
                  /\ messages' = handled.messages
                  /\ turn' = [turn EXCEPT !.status = IF @ = "none" THEN @ ELSE "closed"]
          ELSE /\ turn.n < MaxTurns
               /\ messages' = Append(messages, [role |-> "user",
                                                content |-> Plain(trimmedInput)])
               /\ pc' = "streaming"
               /\ turn' = CallModel([NoTurn(turn.enableTools) EXCEPT
                                        !.n = turn.n + 1, !.status = "streaming",
                                        !.base = messages, !.input = trimmedInput])
    /\ UNCHANGED <<exec, files, dirs, repo, last>>

\* line 678: messages.push({role: 'assistant', content: fullResponse})
PushAssistant(history, fullResponse) ==
    Append(history, [role |-> "assistant", content |-> fullResponse])

\* a variant that goes back to the model once the batch is over
AfterBatchAgain(t, history) ==
    [pc |-> "streaming",
     messages |-> PushAssistant(history, t.fullResponse),
     turn |-> CallModel([t EXCEPT !.status = "streaming"])]

\* lines 677-679 and the loop back to the prompt
AfterBatch(t, history) ==
    [pc |-> "idle",
     messages |-> PushAssistant(history, t.fullResponse),
     turn |-> [t EXCEPT !.status = "done"]]

\* lines 649-658: the stream ends with fullResponse; parseToolCalls when tools are on
StreamEnds(fullResponse) ==
    /\ pc = "streaming"
    /\ LET toolCalls == IF turn.enableTools THEN ParseToolCalls(fullResponse) ELSE <<>>
           t == [turn EXCEPT !.fullResponse = fullResponse, !.toolCalls = toolCalls]
           after == AfterBatch(t, messages)
       IN IF toolCalls = <<>>
          THEN pc' = after.pc /\ messages' = after.messages /\ turn' = after.turn
          ELSE /\ pc' = "batch"
               /\ turn' = [t EXCEPT !.status = "batch", !.batches = @ + 1]
               /\ UNCHANGED messages
    /\ UNCHANGED <<exec, files, dirs, repo, last>>

\* lines 649-652 and 681-684: the stream raises, the inner catch prints the error
StreamFails ==
    /\ pc = "streaming"
    /\ pc' = "idle"
    /\ turn' = [turn EXCEPT !.status = "failed"]
    /\ UNCHANGED <<messages, exec, files, dirs, repo, last>>

\* a variant that lets an invocation start while another is in flight
CanStartAlways(t) == TRUE

\* line 662: await executeTool(...) inside for (const toolCall of toolCalls)
CanStart(t) == t.inflight = {}

\* is this invocation handed to executeCommand?
RunsCommand(toolCall) ==
    toolCall.name = "run_command" /\ Has(toolCall.arguments, "command")

\* lines 660-662: the loop takes the next toolCall and calls executeTool(name,
\* arguments, cwd), without options: autoApprove is false
ToolStart ==
    /\ pc = "batch"
    /\ CanStart(turn)
    /\ turn.next <= Len(turn.toolCalls)
    /\ turn' = [turn EXCEPT !.inflight = @ \cup {turn.next},
                            !.started = Append(@, turn.next),
                            !.next = @ + 1]
    /\ IF RunsCommand(turn.toolCalls[turn.next])
       THEN ExecStart(turn.toolCalls[turn.next].arguments.command, TRUE)
       ELSE UNCHANGED exec
    /\ UNCHANGED <<pc, messages, files, dirs, repo, last>>

\* a variant that injects the whole content
ToolResultMessageWhole(content) ==
    [role |-> "user", content |-> Plain("[Tool Result]\n" \o content)]

\* line 669: the synthetic entry
ToolResultMessage(content) ==
    [role |-> "user",
     content |-> Plain("[Tool Result]\n" \o SliceStr(content, TOOL_RESULT_LIMIT))]

\* lines 664-673: what one returned result adds to the history
Inject(history, fullResponse, result) ==
    IF result.success /\ Has(result, "content") /\ result.content # ""
    THEN PushAssistant(history, fullResponse) \o <<ToolResultMessage(result.content)>>
    ELSE history

\* lines 664-684: executeTool settled with r. A result is injected and the loop
\* goes on or, after the last invocation, the response is pushed; a rejection lands
\* in the inner catch, which prints it and abandons the rest of the turn
Settle(i, fail, r) ==
    LET t == [turn EXCEPT !.inflight = @ \ {i},
                          !.results = Append(@, [index |-> i, fail |-> fail,
                                                 outcome |-> r.outcome,
                                                 prompts |-> r.prompts])]
        injected == Inject(messages, turn.fullResponse, r.outcome.result)
        after == AfterBatch(t, injected)
    IN /\ files' = r.st.files
       /\ dirs' = r.st.dirs
       /\ repo' = r.st.repo
       /\ IF r.outcome.kind = "throw"
          THEN /\ pc' = "idle"
               /\ turn' = [t EXCEPT !.status = "raised"]
               /\ UNCHANGED messages
          ELSE IF t.next > Len(t.toolCalls) /\ t.inflight = {}
          THEN pc' = after.pc /\ messages' = after.messages /\ turn' = after.turn
          ELSE pc' = "batch" /\ messages' = injected /\ turn' = t

\* line 662: the awaited executeTool(toolCall.name, toolCall.arguments, cwd) settles
ToolReturn(i, env) ==
    /\ pc = "batch"
    /\ i \in turn.inflight
    /\ RunsCommand(turn.toolCalls[i]) => exec.pc = "done"
    /\ Settle(i, env.fail,
              IF turn.toolCalls[i].name = "run_command"
              THEN RunCommandTool(turn.toolCalls[i].arguments, exec, WorkDir)
              ELSE ExecuteTool(turn.toolCalls[i].name, turn.toolCalls[i].arguments,
                               FALSE, env, WorkDir))
    /\ UNCHANGED <<exec, last>>

Init ==
    /\ \E isWindows \in BOOLEAN : exec = ExecIdle(isWindows)
    /\ files = ChatDir.files /\ dirs = ChatDir.dirs /\ repo = ChatDir.repo
    /\ last = NULL
    /\ pc = "idle"
    /\ messages = <<>>
    /\ \E enableTools \in BOOLEAN : turn = NoTurn(enableTools)

Next ==
    \/ \E input \in Inputs : ReadInput(input)
    \/ \E fullResponse \in Responses : StreamEnds(fullResponse)
    \/ StreamFails
    \/ ToolStart
    \/ \E i \in 1..2, env \in ChatEnvs : ToolReturn(i, env)
    \/ \E proceed \in BOOLEAN : AnswerDanger(proceed) /\ ExecFrame
    \/ \E proceed \in BOOLEAN : AnswerConfirm(proceed) /\ ExecFrame
    \/ \E result \in RunOutcomes : ProcessEnds(result) /\ ExecFrame

Spec == Init /\ [][Next]_vars

-----------------------------------------------------------------------------
Finished == last # NULL /\ last.outcome.kind # "pending"

Declined == \E i \in 1..Len(last.prompts) : ~last.prompts[i]

Accepted == \E i \in 1..Len(last.prompts) : last.prompts[i]

(* C2: executeTool never raises: whatever the tool name, the arguments      *)
(* (missing ones included) and the outcome of the filesystem, git or the    *)
(* shell, the call returns a ToolResult with a boolean success, and a       *)
(* success=false result carries an error message.                           *)
C2_NeverRaises ==
    Finished =>
        /\ last.outcome.kind = "return"
        /\ last.outcome.result.success \in BOOLEAN
        /\ ~last.outcome.result.success => "error" \in DOMAIN last.outcome.result

ConfirmedTools == {"write_file", "edit_file", "multi_edit_file", "insert_at_line",
                   "find_replace", "delete_file", "git_commit"}

(* C6: with autoApprove absent or false, answering no to the confirmation   *)
(* of write_file, edit_file, multi_edit_file, insert_at_line, find_replace, *)
(* delete_file or git_commit returns {success:false, error:'Cancelled'} and *)
(* leaves file contents, directories and the repository as they were        *)
(* before the call.                                                         *)
C6_DeclineChangesNothing ==
    (Finished /\ last.call.toolName \in ConfirmedTools /\ ~last.autoApprove /\ Declined)
        => /\ last.outcome = [kind |-> "return", result |-> CANCELLED]
           /\ WorkDir = last.before

C6_Witness ==
    /\ Finished /\ ~last.autoApprove /\ Declined
    /\ last.call = Call("edit_file", [path |-> "a.txt", old_content |-> "y = 2",
                                      new_content |-> "y = 3"])
    /\ "a.txt" \in DOMAIN files

C10_MissingArgumentRejected ==
    (Finished /\ MissingField(last.call) # {})
        => /\ \E field \in MissingField(last.call) :
                 last.outcome = [kind |-> "return",
                                 result |-> [success |-> FALSE,
                                             error |-> "Missing required argument: "
                                                       \o field]]
           /\ last.io = <<>>
           /\ WorkDir = last.before

-----------------------------------------------------------------------------
Ended == turn.status \in {"done", "raised"}

Returned_(r) == r.outcome.kind = "return"

Failed(r) == ~Returned_(r) \/ ~r.outcome.result.success

WithContent(r) ==
    /\ Returned_(r) /\ r.outcome.result.success
    /\ "content" \in DOMAIN r.outcome.result
    /\ r.outcome.result.content # ""

Executed(k) == \E m \in 1..Len(turn.results) : turn.results[m].index = k

(* C3: when an invocation of a batch fails for any reason (I/O error,       *)
(* missing or malformed argument, no edit match, unknown tool, declined     *)
(* confirmation), the controller still executes every later invocation of   *)
(* the same batch.                                                          *)
C3_BatchContinues ==
    Ended => \A j \in 1..Len(turn.results) :
                 Failed(turn.results[j])
                     => \A k \in (turn.results[j].index + 1)..Len(turn.toolCalls) :
                            Executed(k)

\* invocation j wrote path A after a yes, and invocation j + 1 read A undisturbed
WriteThenRead(j) ==
    /\ j + 1 <= Len(turn.results)
    /\ turn.toolCalls[j].name = "write_file"
    /\ turn.toolCalls[j + 1].name = "read_file"
    /\ {"path", "content"} \subseteq DOMAIN turn.toolCalls[j].arguments
    /\ "path" \in DOMAIN turn.toolCalls[j + 1].arguments
    /\ turn.toolCalls[j + 1].arguments.path = turn.toolCalls[j].arguments.path
    /\ turn.results[j].prompts = <<TRUE>>
    /\ Returned_(turn.results[j]) /\ turn.results[j].outcome.result.success
    /\ turn.results[j + 1].fail = "none"

(* C4: within one turn the invocations are executed strictly in list order, *)
(* invocation i+1 starts only after invocation i has returned (never two in *)
(* flight), and a read_file of path A that follows a confirmed write_file   *)
(* of A in the same batch returns exactly the content that was written.     *)
C4_InOrderOneAtATime ==
    /\ Cardinality(turn.inflight) <= 1
    /\ \A k \in 1..Len(turn.started) : turn.started[k] = k
    /\ \A k \in 1..Len(turn.results) : turn.results[k].index = k
    /\ Len(turn.started) <= Len(turn.results) + 1
    /\ \A j \in 1..Len(turn.results) :
          WriteThenRead(j) =>
              turn.results[j + 1].outcome =
                  [kind |-> "return",
                   result |-> [success |-> TRUE,
                               content |-> turn.toolCalls[j].arguments.content]]

C4_Witness ==
    /\ turn.status = "done"
    /\ WriteThenRead(1)
    /\ turn.results[2].outcome.result.content = "new"
    /\ files["a.txt"] = "new"

UserEntry(t) == [role |-> "user", content |-> Plain(t.input)]

AssistantEntry(t) == [role |-> "assistant", content |-> t.fullResponse]

SyntheticEntry(r) ==
    [role |-> "user",
     content |-> Plain("[Tool Result]\n"
                       \o SubSeq(r.outcome.result.content, 1,
                                 Min(TOOL_RESULT_LIMIT, Len(r.outcome.result.content))))]

\* the synthetic entries the results call for, in order
RECURSIVE ExpectedSynthetic(_)
ExpectedSynthetic(results) ==
    IF results = <<>> THEN <<>>
    ELSE (IF WithContent(Head(results)) THEN <<SyntheticEntry(Head(results))>> ELSE <<>>)
         \o ExpectedSynthetic(Tail(results))

\* the response followed by the synthetic entry, once per result with content
RECURSIVE ExpectedPairs(_, _)
ExpectedPairs(t, results) ==
    IF results = <<>> THEN <<>>
    ELSE (IF WithContent(Head(results))
          THEN <<AssistantEntry(t), SyntheticEntry(Head(results))>> ELSE <<>>)
         \o ExpectedPairs(t, Tail(results))

IsAssistant(m) == m.role = "assistant"

IsUser(m) == m.role = "user"

Gained == SubSeq(messages, Len(turn.base) + 2, Len(messages))

-----------------------------------------------------------------------------
WritingTools == {"write_file", "edit_file", "multi_edit_file", "insert_at_line"}

ReturnedSuccess ==
    /\ Finished /\ last.outcome.kind = "return"
    /\ last.outcome.result.success

(* C11: a tool reports success=true only if the mutation it was asked for   *)
(* was applied: when the underlying file write fails, write_file,           *)
(* edit_file, multi_edit_file and insert_at_line do not return success, and *)
(* find_replace does not count that file as modified.                       *)
C11_SuccessMeansApplied ==
    (ReturnedSuccess /\ last.env.fail = "writeFile")
        => /\ last.call.toolName \notin WritingTools
           /\ last.call.toolName = "find_replace"
                 => last.outcome.result.filesModified = 0

\* edit_file with every argument present, on a readable file, confirmed, no failing call
EditApplied ==
    /\ Finished /\ last.call.toolName = "edit_file"
    /\ MissingField(last.call) = {}
    /\ last.call.args.path \in DOMAIN last.before.files
    /\ last.env.fail = "none"
    /\ last.autoApprove \/ last.env.proceed

(* C12: for every file text and every text X that occurs in it, edit_file   *)
(* with old_content = new_content = X succeeds and writes a file textually  *)
(* identical to the original.                                               *)
C12_SameTextIsIdentity ==
    ( /\ EditApplied
      /\ last.call.args.old_content = last.call.args.new_content
      /\ Includes(last.before.files[last.call.args.path], last.call.args.old_content) )
        => /\ ReturnedSuccess
           /\ files[last.call.args.path] = last.before.files[last.call.args.path]

\* the file of an edit_file call as it was, with LF line endings, and its lines
EditedBefore == NormalizeLineEndings(last.before.files[last.call.args.path])

EditedOldLines == SplitLines(NormalizeLineEndings(last.call.args.old_content))

\* the first window of file lines equal to old_content's lines after collapsing
\* runs of spaces and tabs and trimming; 0 when there is none
EditedWindow == WhitespaceWindow(SplitLines(EditedBefore), EditedOldLines)

ExactTierFails ==
    ~Includes(EditedBefore, NormalizeLineEndings(last.call.args.old_content))

(* C13: when the exact tier fails, edit_file succeeds through the           *)
(* whitespace tier whenever the file has a window of consecutive lines, as  *)
(* many as old_content has lines, in which every line equals the            *)
(* corresponding old_content line after collapsing runs of spaces/tabs to   *)
(* one space and trimming; the first such window is the one replaced.       *)
C13_WhitespaceTierMatches ==
    (EditApplied /\ ExactTierFails /\ EditedWindow > 0)
        => /\ ReturnedSuccess
           /\ NormalizeLineEndings(files[last.call.args.path])
                 = WhitespaceSplice(SplitLines(EditedBefore), EditedOldLines, EditedWindow,
                                    NormalizeLineEndings(last.call.args.new_content))

\* no line feed that is not immediately preceded by a carriage return
NoBareLF(s) ==
    \A i \in 1..Len(s) : Ch(s, i) = "\n" => (i > 1 /\ Ch(s, i - 1) = "\r")

\* a successful edit_file or multi_edit_file that wrote a file holding a CRLF
WroteCRLFFile ==
    /\ ReturnedSuccess
    /\ last.call.toolName \in {"edit_file", "multi_edit_file"}
    /\ last.env.fail = "none"
    /\ Includes(last.before.files[last.call.args.path], "\r\n")

(* C14: for every file that contains a CRLF line ending, the content        *)
(* written by a successful edit_file (exact or whitespace tier) or          *)
(* multi_edit_file contains no line feed that is not immediately preceded   *)
(* by a carriage return, whatever line endings old_content and new_content  *)
(* use.                                                                     *)
C14_NoBareLineFeed ==
    WroteCRLFFile => NoBareLF(files[last.call.args.path])

C14_Witness ==
    /\ WroteCRLFFile
    /\ last.call.toolName = "edit_file"
    /\ ExactTierFails
    /\ files["w.txt"] = "p\r\nq\r\ns"

EditFailed ==
    /\ Finished /\ last.call.toolName = "edit_file"
    /\ last.outcome.kind = "return"
    /\ ~last.outcome.result.success

\* old_content is matched by neither the exact nor the whitespace tier
NoTierMatches ==
    /\ MissingField(last.call) = {}
    /\ last.call.args.path \in DOMAIN last.before.files
    /\ last.env.fail = "none"
    /\ ExactTierFails /\ EditedWindow = 0

(* C15: whenever edit_file returns success=false (missing argument, file    *)
(* not found, old_content matched by neither tier, or declined              *)
(* confirmation) no write is performed: the files are exactly what they     *)
(* were before the call, and the no-match case returns a diagnostic error   *)
(* rather than a generic failure.                                           *)
C15_FailedEditWritesNothing ==
    EditFailed
        => /\ files = last.before.files
           /\ NoTierMatches
                 => StartsWith(last.outcome.result.error, "Content not found in file.")

C15_Witness ==
    /\ EditFailed /\ NoTierMatches
    /\ last.call.args.old_content = "q"
    /\ Includes(last.outcome.result.error, "Tip: Use read_file first")

-----------------------------------------------------------------------------
(* tools.js: parseToolCalls on the text of a response.  A JSON value is     *)
(* [str |-> s], [num |-> n], [lit |-> "true" | "false" | "null"],            *)
(* [arr |-> sequence] or [obj |-> function from keys to values].            *)

\* the text t stands at position i of s
At(s, i, t) == i >= 1 /\ i + Len(t) - 1 <= Len(s) /\ SubSeq(s, i, i + Len(t) - 1) = t

\* the first position >= i where t stands, 0 when there is none
Find(s, i, t) ==
    LET First(hits) == IF hits = {} THEN 0 ELSE CHOOSE j \in hits : \A k \in hits : j <= k
    IN First({j \in i..(Len(s) - Len(t) + 1) : At(s, j, t)})

\* \s* from position i: the first position that holds no white space
RECURSIVE SkipWs(_, _)
SkipWs(s, i) == IF i <= Len(s) /\ IsSpace(Ch(s, i)) THEN SkipWs(s, i + 1) ELSE i

JSON_FAIL == [ok |-> FALSE]

\* JSON.parse, the characters of a string from position i up to its closing quote
RECURSIVE JsonChars(_, _, _)
JsonChars(s, i, acc) ==
    IF i > Len(s) \/ Ch(s, i) \in {"\n", "\r", "\t"} THEN JSON_FAIL
    ELSE IF Ch(s, i) = "\"" THEN [ok |-> TRUE, v |-> [str |-> acc], next |-> i + 1]
    ELSE IF Ch(s, i) # "\\" THEN JsonChars(s, i + 1, acc \o Ch(s, i))
    ELSE IF i + 1 > Len(s) THEN JSON_FAIL
    ELSE LET e == Ch(s, i + 1)
         IN CASE e \in {"\"", "\\", "/"} -> JsonChars(s, i + 2, acc \o e)
              [] e = "n" -> JsonChars(s, i + 2, acc \o "\n")
              [] e = "r" -> JsonChars(s, i + 2, acc \o "\r")
              [] e = "t" -> JsonChars(s, i + 2, acc \o "\t")
              [] OTHER -> JSON_FAIL

\* the end of a run of digits that starts at position i
RECURSIVE JsonDigits(_, _)
JsonDigits(s, i) ==
    IF i <= Len(s) /\ Ch(s, i) \in {"0", "1", "2", "3", "4", "5", "6", "7", "8", "9"}
    THEN JsonDigits(s, i + 1) ELSE i

\* JSON.parse, one value from position i: [ok, v, next]
RECURSIVE JsonValue(_, _)
RECURSIVE JsonMembers(_, _, _)
RECURSIVE JsonElements(_, _, _)
JsonValue(s, i) ==
    LET j == SkipWs(s, i)
    IN IF j > Len(s) THEN JSON_FAIL
       ELSE CASE Ch(s, j) = "{" ->
                   IF At(s, SkipWs(s, j + 1), "}")
                   THEN [ok |-> TRUE, v |-> [obj |-> <<>>], next |-> SkipWs(s, j + 1) + 1]
                   ELSE JsonMembers(s, j + 1, <<>>)
              [] Ch(s, j) = "[" ->
                   IF At(s, SkipWs(s, j + 1), "]")
                   THEN [ok |-> TRUE, v |-> [arr |-> <<>>], next |-> SkipWs(s, j + 1) + 1]
                   ELSE JsonElements(s, j + 1, <<>>)
              [] Ch(s, j) = "\"" -> JsonChars(s, j + 1, "")
              [] At(s, j, "true") -> [ok |-> TRUE, v |-> [lit |-> "true"], next |-> j + 4]
              [] At(s, j, "false") -> [ok |-> TRUE, v |-> [lit |-> "false"], next |-> j + 5]
              [] At(s, j, "null") -> [ok |-> TRUE, v |-> [lit |-> "null"], next |-> j + 4]
              [] JsonDigits(s, j) > j /\ (Ch(s, j) # "0" \/ JsonDigits(s, j) = j + 1) ->
                   [ok |-> TRUE, v |-> [num |-> SubSeq(s, j, JsonDigits(s, j) - 1)],
                    next |-> JsonDigits(s, j)]
              [] OTHER -> JSON_FAIL

\* the members of an object after '{' or ',': "key" : value, a later key replacing
\* an earlier one
JsonMembers(s, i, members) ==
    LET Member(key, val) ==
            IF ~val.ok THEN JSON_FAIL
            ELSE IF At(s, SkipWs(s, val.next), "}")
            THEN [ok |-> TRUE, v |-> [obj |-> (key.v.str :> val.v) @@ members],
                  next |-> SkipWs(s, val.next) + 1]
            ELSE IF At(s, SkipWs(s, val.next), ",")
            THEN JsonMembers(s, SkipWs(s, val.next) + 1, (key.v.str :> val.v) @@ members)
            ELSE JSON_FAIL
        Keyed(key) ==
            IF key.ok /\ At(s, SkipWs(s, key.next), ":")
            THEN Member(key, JsonValue(s, SkipWs(s, key.next) + 1))
            ELSE JSON_FAIL
    IN IF At(s, SkipWs(s, i), "\"") THEN Keyed(JsonChars(s, SkipWs(s, i) + 1, ""))
       ELSE JSON_FAIL

\* the elements of an array after '[' or ','
JsonElements(s, i, elements) ==
    LET Element(val) ==
            IF ~val.ok THEN JSON_FAIL
            ELSE IF At(s, SkipWs(s, val.next), "]")
            THEN [ok |-> TRUE, v |-> [arr |-> Append(elements, val.v)],
                  next |-> SkipWs(s, val.next) + 1]
            ELSE IF At(s, SkipWs(s, val.next), ",")
            THEN JsonElements(s, SkipWs(s, val.next) + 1, Append(elements, val.v))
            ELSE JSON_FAIL
    IN Element(JsonValue(s, i))

\* JSON.parse(text): the value, or NULL where JSON.parse throws
JsonParse(text) ==
    LET Whole(r) == IF r.ok /\ SkipWs(text, r.next) > Len(text) THEN Some(r.v) ELSE NULL
    IN Whole(JsonValue(text, 1))

\* parsed.field: the member, or [lit |-> "undefined"]
JsonField(parsed, field) ==
    IF "obj" \in DOMAIN parsed /\ field \in DOMAIN parsed.obj
    THEN parsed.obj[field] ELSE [lit |-> "undefined"]

\* a value in a condition
Truthy(v) ==
    CASE "str" \in DOMAIN v -> v.str # ""
      [] "num" \in DOMAIN v -> v.num # "0"
      [] "lit" \in DOMAIN v -> v.lit = "true"
      [] OTHER -> TRUE

\* the position of the '}' that ends a lazy [\s\S]*?\} : the first '}' at or after
\* from that is followed by \s* and the suffix; 0 when there is none
RECURSIVE FindClose(_, _, _)
FindClose(s, from, suffix) ==
    LET Close(j) == IF j = 0 THEN 0
                    ELSE IF At(s, SkipWs(s, j + 1), suffix) THEN j
                    ELSE FindClose(s, j + 1, suffix)
    IN IF from = 0 THEN 0 ELSE Close(Find(s, from, "}"))

\* \s*\{ from position a: the position of the brace, 0 when it does not match
OpenBrace(s, a) == IF At(s, SkipWs(s, a), "{") THEN SkipWs(s, a) ELSE 0

\* [^{]*\|message\|>\s*\{ from position a: the position of the brace, 0 when it
\* does not match
MarkerBrace(s, a) ==
    LET Brace(c) ==
            IF c > 0 /\ \E m \in a..(c - 10) :
                            At(s, m, "|message|>") /\ SkipWs(s, m + 10) = c
            THEN c ELSE 0
    IN Brace(Find(s, a, "{"))

\* \w+ from position i: the position after the run of word characters
RECURSIVE WordEnd(_, _)
WordEnd(s, i) ==
    IF i <= Len(s) /\ Includes(UpperAlpha \o LowerAlpha \o "0123456789_", Ch(s, i))
    THEN WordEnd(s, i + 1) ELSE i

\* [\s\S]*?"arguments"\s*:\s*\{ from position from: the position of the brace
RECURSIVE FindArguments(_, _)
FindArguments(s, from) ==
    LET Key(g) ==
            IF g = 0 THEN 0
            ELSE IF At(s, SkipWs(s, g + 11), ":") /\ OpenBrace(s, SkipWs(s, g + 11) + 1) > 0
            THEN OpenBrace(s, SkipWs(s, g + 11) + 1)
            ELSE FindArguments(s, g + 1)
    IN Key(Find(s, from, "\"arguments\""))

\* the fence of a markdown code block
FENCE == SubSeq("```'", 1, 3)

\* one match of a format's pattern at position p, where its opener stands:
\* the position after the match, the captured text and, for format 6, the
\* marker's tool name
MatchAt(s, p, format) ==
    LET NO_MATCH == [end |-> 0, text |-> "", name |-> ""]
        \* the capture runs from the brace at c to the one at e
        Captured(c, e, tail, name) ==
            IF c = 0 \/ e = 0 THEN NO_MATCH
            ELSE [end |-> IF tail = 0 THEN e + 1 ELSE SkipWs(s, e + 1) + tail,
                  text |-> SubSeq(s, IF format = 3 THEN p ELSE c,
                                  IF format = 3 THEN SkipWs(s, e + 1) ELSE e),
                  name |-> name]
        \* \{[\s\S]*?\} and the suffix, from the brace at c
        ToClose(c, suffix, tail, name) ==
            Captured(c, IF c = 0 THEN 0 ELSE FindClose(s, c + 1, suffix), tail, name)
        \* \{[\s\S]*?"tool"[\s\S]*?\} and the suffix, from the brace at c
        ThroughTool(c, t, suffix, tail) ==
            Captured(c, IF c = 0 \/ t = 0 THEN 0 ELSE FindClose(s, t + 6, suffix), tail, "")
        ToolFrom(c, suffix, tail) ==
            ThroughTool(c, IF c = 0 THEN 0 ELSE Find(s, c + 1, "\"tool\""), suffix, tail)
        \* "([^"]+)" and the rest of format 3, from the opening quote
        Named(quote, close) ==
            ToClose(IF close > quote + 1 THEN FindArguments(s, close + 1) ELSE 0, "}", 1, "")
        Quoted(quote) ==
            IF At(s, quote, "\"") THEN Named(quote, Find(s, quote + 1, "\"")) ELSE NO_MATCH
        \* (\w+) and the rest of format 6, the word ending before w
        Marked(w) ==
            IF w > p + 16 THEN ToClose(MarkerBrace(s, w), "", 0, SubSeq(s, p + 16, w - 1))
            ELSE NO_MATCH
    IN CASE format = 1 ->
              ToolFrom(OpenBrace(s, IF At(s, p + 3, "json") THEN p + 7 ELSE p + 3), FENCE, 3)
         [] format = 2 -> ToolFrom(OpenBrace(s, p + 11), "", 0)
         [] format = 3 ->
              IF At(s, SkipWs(s, p + 7), ":")
              THEN Quoted(SkipWs(s, SkipWs(s, p + 7) + 1)) ELSE NO_MATCH
         [] format = 4 -> ToClose(OpenBrace(s, p + 15), "</function_call>", 16, "")
         [] format = 5 -> ToClose(MarkerBrace(s, p + 17), "", 0, "")
         [] format = 6 -> Marked(WordEnd(s, p + 16))

\* while ((match = pattern.exec(response)) !== null): the matches in text order
RECURSIVE Scan(_, _, _)
Scan(s, from, format) ==
    LET Try(p, match) == IF match.end = 0 THEN Scan(s, p + 1, format)
                         ELSE <<match>> \o Scan(s, match.end, format)
        Opened(p) == IF p = 0 THEN <<>> ELSE Try(p, MatchAt(s, p, format))
        \* the text every match of the format's pattern starts with
        opener == CASE format = 1 -> FENCE
                    [] format = 2 -> "<|message|>"
                    [] format = 3 -> "{\"tool\""
                    [] format = 4 -> "<function_call>"
                    [] format = 5 -> "to=container.exec"
                    [] format = 6 -> "to=repo_browser."
    IN Opened(Find(s, from, opener))

\* the body of a format's loop: the invocation pushed for one match, if any
Pushed(match, format) ==
    LET Both(name, arguments) ==
            IF Truthy(name) /\ Truthy(arguments)
            THEN <<[name |-> name, arguments |-> arguments]>> ELSE <<>>
        Command(cmd) ==
            IF "arr" \in DOMAIN cmd
            THEN <<[name |-> [str |-> "run_command"],
                    arguments |->
                        [obj |-> [command |-> IF cmd.arr = <<>> THEN [lit |-> "undefined"]
                                              ELSE cmd.arr[Len(cmd.arr)]]]]>>
            ELSE <<>>
        Push(parsed) ==
            IF parsed = NULL THEN <<>>
            ELSE CASE format \in {1, 2, 3} ->
                        Both(JsonField(parsed.v, "tool"), JsonField(parsed.v, "arguments"))
                   [] format = 4 ->
                        Both(JsonField(parsed.v, "name"), JsonField(parsed.v, "arguments"))
                   [] format = 5 -> Command(JsonField(parsed.v, "cmd"))
                   [] format = 6 ->
                        IF Truthy(JsonField(parsed.v, "tool"))
                           /\ Truthy(JsonField(parsed.v, "arguments"))
                        THEN <<[name |-> JsonField(parsed.v, "tool"),
                                arguments |-> JsonField(parsed.v, "arguments")]>>
                        ELSE <<[name |-> [str |-> match.name], arguments |-> parsed.v]>>
    IN Push(JsonParse(match.text))

\* what one format's loop pushes over the whole response
RECURSIVE PushedAll(_, _)
PushedAll(matches, format) ==
    IF matches = <<>> THEN <<>>
    ELSE Pushed(Head(matches), format) \o PushedAll(Tail(matches), format)

ByFormat(response, format) == PushedAll(Scan(response, 1, format), format)

\* a variant without the bare-JSON scan
ParseToolCallsTextMarked(response) ==
    ByFormat(response, 1) \o ByFormat(response, 2)
    \o ByFormat(response, 4) \o ByFormat(response, 5) \o ByFormat(response, 6)

\* a variant whose bare-JSON scan always runs
ParseToolCallsTextAll(response) ==
    ByFormat(response, 1) \o ByFormat(response, 2) \o ByFormat(response, 3)
    \o ByFormat(response, 4) \o ByFormat(response, 5) \o ByFormat(response, 6)

\* parseToolCalls(response) on the text of the response
ParseToolCallsText(response) ==
    LET Then(toolCalls) ==
            toolCalls
            \o (IF Len(toolCalls) = 0 THEN ByFormat(response, 3) ELSE <<>>)
            \o ByFormat(response, 4) \o ByFormat(response, 5) \o ByFormat(response, 6)
    IN Then(ByFormat(response, 1) \o ByFormat(response, 2))

-----------------------------------------------------------------------------
(* parseToolCalls applied to responses put together from pieces of text.    *)

MaxPieces == 2

\* pieces of a response: a well-formed call in each encoding, other text, and
\* calls whose JSON payload is broken
PIECES == [
    fenced |->
        FENCE \o "json\n{\"tool\":\"read_file\",\"arguments\":{\"path\":\"a.txt\"}}\n" \o FENCE,
    pretty |->
        FENCE \o "\n{\n  \"tool\": \"git_status\",\n  \"arguments\": {}\n}\n" \o FENCE,
    message |-> "<|message|>{\"tool\":\"read_file\",\"arguments\":{\"path\":\"b.txt\"}}",
    bare |-> "{\"tool\":\"list_directory\",\"arguments\":{\"path\":\".\"}}",
    function |->
        "<function_call>{\"name\":\"git_log\",\"arguments\":{\"count\":5}}</function_call>",
    exec |->
        "<|channel|>commentary to=container.exec <|constrain|>json<|message|>"
        \o "{\"cmd\":[\"bash\",\"-lc\",\"ls -R\"]}",
    repo |->
        "<|channel|>commentary to=repo_browser.read_file <|constrain|>json<|message|>"
        \o "{\"path\":\"c.txt\"}",
    prose |-> "I will check the file first.",
    code |-> FENCE \o "json\n{ \"name\": \"demo\" }\n" \o FENCE,
    cut |-> FENCE \o "json\n{\"tool\": \"read_file\", \"arguments\":\n" \o FENCE,
    fenced_bad |->
        FENCE \o "json\n{\"tool\":\"read_file\",\"arguments\":{\"path\":}}\n" \o FENCE,
    message_bad |-> "<|message|>{\"arguments\":{\"path\":\"b.txt\"},\"tool\":}",
    bare_bad |-> "{\"tool\":\"list_directory\",\"arguments\":{\"path\":}}",
    function_bad |-> "<function_call>{\"name\":\"git_log\",\"arguments\":}</function_call>",
    exec_bad |-> "to=container.exec <|message|>{\"cmd\":[\"bash\",\"ls\"}",
    repo_bad |-> "to=repo_browser.read_file <|message|>{\"path\":}" ]

\* the responses: up to MaxPieces pieces, one per line
PieceLists == UNION {[1..n -> DOMAIN PIECES] : n \in 1..MaxPieces}

RECURSIVE ResponseText(_)
ResponseText(pieces) ==
    IF Len(pieces) = 1 THEN PIECES[pieces[1]]
    ELSE PIECES[pieces[1]] \o "\n" \o ResponseText(Tail(pieces))

\* parseToolCalls(response) is called on a response
ParseResponse(pieces) ==
    /\ last = NULL
    /\ last' = [pieces |-> pieces, toolCalls |-> ParseToolCallsText(ResponseText(pieces))]
    /\ UNCHANGED <<exec, files, dirs, repo, pc, messages, turn>>

InitParse ==
    /\ exec = ExecIdle(FALSE)
    /\ IdleTools /\ IdleChat

NextParse == \E pieces \in PieceLists : ParseResponse(pieces)

SpecParse == InitParse /\ [][NextParse]_vars

-----------------------------------------------------------------------------
(* Properties of parseToolCalls.                                            *)

\* the pieces that hold a well-formed call, other text, a broken call
WellFormed == {"fenced", "pretty", "message", "bare", "function", "exec", "repo"}

OtherText == {"prose", "code"}

Broken == {"cut", "fenced_bad", "message_bad", "bare_bad", "function_bad", "exec_bad",
           "repo_bad"}

\* the invocation each well-formed piece encodes
Encoded == [
    fenced |-> [name |-> [str |-> "read_file"],
                arguments |-> [obj |-> [path |-> [str |-> "a.txt"]]]],
    pretty |-> [name |-> [str |-> "git_status"], arguments |-> [obj |-> <<>>]],
    message |-> [name |-> [str |-> "read_file"],
                 arguments |-> [obj |-> [path |-> [str |-> "b.txt"]]]],
    bare |-> [name |-> [str |-> "list_directory"],
              arguments |-> [obj |-> [path |-> [str |-> "."]]]],
    function |-> [name |-> [str |-> "git_log"],
                  arguments |-> [obj |-> [count |-> [num |-> "5"]]]],
    exec |-> [name |-> [str |-> "run_command"],
              arguments |-> [obj |-> [command |-> [str |-> "ls -R"]]]],
    repo |-> [name |-> [str |-> "read_file"],
              arguments |-> [obj |-> [path |-> [str |-> "c.txt"]]]] ]

\* the positions of a response's pieces that are of the given kinds
PiecesOf(kinds) == {i \in DOMAIN last.pieces : last.pieces[i] \in kinds}

\* C16: a response that holds exactly one well-formed fenced JSON call, the rest
\* of it being other text (prose, a code block), is parsed to exactly one
\* invocation, with the name and the arguments the call encodes.
C16_OneFencedCall ==
    (last # NULL /\ Cardinality(PiecesOf({"fenced", "pretty"})) = 1
     /\ PiecesOf({"fenced", "pretty"} \cup OtherText) = DOMAIN last.pieces)
    => \A i \in PiecesOf({"fenced", "pretty"}) :
            last.toolCalls = <<Encoded[last.pieces[i]]>>

\* C17: a response that is one minimal valid example of a non-fenced encoding
\* (inline marker, bare JSON, function_call block, container.exec marker,
\* repo_browser marker) is parsed to exactly one invocation: the name and the
\* arguments as encoded, run_command with the last element of cmd for
\* container.exec, the marker's tool name with the payload as arguments for a
\* repo_browser payload that has no tool field.
C17_MinimalExamples ==
    (last # NULL /\ Len(last.pieces) = 1
     /\ last.pieces[1] \in {"message", "bare", "function", "exec", "repo"})
    => last.toolCalls = <<Encoded[last.pieces[1]]>>

C17_Witness ==
    /\ last # NULL
    /\ last.pieces = <<"exec">>
    /\ last.toolCalls = <<[name |-> [str |-> "run_command"],
                           arguments |-> [obj |-> [command |-> [str |-> "ls -R"]]]]>>

\* C18: a candidate whose JSON payload does not parse is dropped: a response
\* that is one broken call is parsed to the empty list, and in a response that
\* holds a broken call and a well-formed one the well-formed call is still
\* returned.
C18_BrokenCandidateDropped ==
    last # NULL =>
        /\ (Len(last.pieces) = 1 /\ last.pieces[1] \in Broken) => last.toolCalls = <<>>
        /\ (PiecesOf(Broken) # {} /\ Cardinality(PiecesOf(WellFormed)) = 1
            /\ PiecesOf(Broken \cup WellFormed) = DOMAIN last.pieces)
           => \A i \in PiecesOf(WellFormed) :
                   \E k \in DOMAIN last.toolCalls :
                       last.toolCalls[k] = Encoded[last.pieces[i]]

\* the invocations encoded by the response's pieces of the given kinds, in text order
EncodedIn(kinds) ==
    LET sel == SelectSeq(last.pieces, LAMBDA p : p \in kinds)
    IN [i \in 1..Len(sel) |-> Encoded[sel[i]]]

\* C19, as stated: every format's scan runs whatever the other formats found and
\* the result is the concatenation of the six scans' matches in format order; a
\* response holding a fenced call and a separate bare-JSON call returns both.
C19_AllFormatsScan ==
    last # NULL =>
        /\ last.toolCalls =
               ByFormat(ResponseText(last.pieces), 1) \o ByFormat(ResponseText(last.pieces), 2)
               \o ByFormat(ResponseText(last.pieces), 3) \o ByFormat(ResponseText(last.pieces), 4)
               \o ByFormat(ResponseText(last.pieces), 5) \o ByFormat(ResponseText(last.pieces), 6)
        /\ last.pieces = <<"fenced", "bare">>
           => \A call \in {Encoded.fenced, Encoded.bare} :
                   \E k \in DOMAIN last.toolCalls : last.toolCalls[k] = call

\* C19, amended: the result is the concatenation, in format order and without
\* de-duplication, of the matches of the fenced and inline-marker scans, then of
\* the bare-JSON scan if those two produced no invocation (it is skipped
\* otherwise), then of the function_call, container.exec and repo_browser
\* scans.  So a response made of well-formed calls returns the fenced calls,
\* then the inline-marker and bare calls only when there is no fenced call,
\* then the function_call, container.exec and repo_browser calls, each group in
\* text order; a fenced call and a separate bare-JSON call return the fenced
\* call only.
C19_BareScanOnlyWhenNothingFound ==
    last # NULL =>
        /\ last.toolCalls =
               ByFormat(ResponseText(last.pieces), 1) \o ByFormat(ResponseText(last.pieces), 2)
               \o (IF ByFormat(ResponseText(last.pieces), 1) = <<>>
                      /\ ByFormat(ResponseText(last.pieces), 2) = <<>>
                   THEN ByFormat(ResponseText(last.pieces), 3) ELSE <<>>)
               \o ByFormat(ResponseText(last.pieces), 4) \o ByFormat(ResponseText(last.pieces), 5)
               \o ByFormat(ResponseText(last.pieces), 6)
        /\ PiecesOf(WellFormed \cup {"prose"}) = DOMAIN last.pieces
           => last.toolCalls =
                  EncodedIn({"fenced", "pretty"})
                  \o (IF EncodedIn({"fenced", "pretty"}) = <<>>
                      THEN EncodedIn({"message", "bare"}) ELSE <<>>)
                  \o EncodedIn({"function"}) \o EncodedIn({"exec"}) \o EncodedIn({"repo"})

C19_Witness ==
    /\ last # NULL
    /\ last.pieces = <<"fenced", "bare">>
    /\ last.toolCalls = <<Encoded.fenced>>

-----------------------------------------------------------------------------
(* Properties of isDangerousCommand.                                        *)

\* the command contains a listed substring, letter case ignored on both sides
ContainsListed(command) ==
    \E i \in 1..Len(DANGEROUS_COMMANDS) :
        Includes(ToLowerCase(command), ToLowerCase(DANGEROUS_COMMANDS[i]))

\* C20: isDangerousCommand(c) is true exactly when c contains one of the listed
\* substrings, compared case-insensitively: every list entry is matched by any
\* upper/lower-case spelling of it; true for 'rm -rf /', 'del /s *.*',
\* 'format c:' and 'sudo rm -rf /', false for 'ls -la', 'git status' and
\* 'npm test'.
C20_DangerousIffListed ==
    exec.pc # "idle" =>
        /\ IsDangerousCommand(exec.command) <=> ContainsListed(exec.command)
        /\ exec.command \in {"rm -rf /", "del /s *.*", "format c:", "sudo rm -rf /"}
           => IsDangerousCommand(exec.command)
        /\ exec.command \in {"ls -la", "git status", "npm test"}
           => ~IsDangerousCommand(exec.command)

-----------------------------------------------------------------------------
(* Properties of executeCommand's confirmation gates.                       *)

\* the prompts of the given kind that the call has asked
Asked(kind) == {i \in DOMAIN exec.prompts : exec.prompts[i].kind = kind}

\* C21: with requireConfirmation true, a command reaches the shell after the
\* generic 'Run this command?' question exactly when it is not classified safe,
\* the question is only ever asked for a command that is not safe, and a safe
\* command that is also dangerous still gets the dangerous-command prompt.
C21_GenericPromptIffNotSafe ==
    exec.requireConfirmation =>
        /\ exec.pc = "confirm" => ~IsSafeCommand(exec.command)
        /\ exec.spawned # <<>> => (Asked("confirm") # {} <=> ~IsSafeCommand(exec.command))
        /\ (exec.spawned # <<>> /\ IsSafeCommand(exec.command)
            /\ IsDangerousCommand(exec.command))
           => Asked("danger") # {}

-----------------------------------------------------------------------------
(* Properties of the git tools.                                             *)

\* C22: git_status, git_diff, git_log and git_commit return {success:false,
\* error} when the working directory is not a repository or the git command
\* fails; none of them returns success=true then, and none raises.
C22_GitFailureReported ==
    (/\ Finished
     /\ last.call.toolName \in {"git_status", "git_diff", "git_log", "git_commit"}
     /\ (~last.before.repo.isRepo \/ last.env.fail = "git"))
    => /\ last.outcome.kind = "return"
       /\ ~last.outcome.result.success
       /\ "error" \in DOMAIN last.outcome.result

-----------------------------------------------------------------------------
(* executor.js: runCommand(command, cwd, timeout), from the moment the      *)
(* promise executor has spawned the shell and armed the timer.  exec holds  *)
(* the closure: proc is the shell ("running", "exited", or "failed" when it *)
(* could not be spawned), hangs and ignoresTerm say what the command does   *)
(* (it never ends on its own; it does not end on SIGTERM, as a command that *)
(* traps the signal or a shell whose child outlives it), atTimeout records  *)
(* the state of proc when the timer fired, resolves counts resolve() calls. *)

\* lines 218-239: the shell is spawned, the timer armed, nothing has happened yet
InitRun ==
    /\ \E command \in {"ls", "npm test"}, isWindows \in BOOLEAN,
          proc \in {"running", "failed"}, hangs \in BOOLEAN, ignoresTerm \in BOOLEAN :
          /\ proc = "failed" => ~hangs /\ ~ignoresTerm
          /\ exec = [command |-> command, shell |-> IF isWindows THEN "cmd" ELSE "/bin/sh",
                     proc |-> proc, hangs |-> hangs, ignoresTerm |-> ignoresTerm,
                     code |-> NULL, signalled |-> FALSE, killed |-> FALSE,
                     timer |-> "armed", atTimeout |-> NULL, errored |-> FALSE,
                     closed |-> FALSE, resolves |-> 0, result |-> NULL]
    /\ IdleTools /\ IdleChat

\* lines 236-239: the timeout elapses; a failed spawn has reported its error by then
TimerFires ==
    /\ exec.timer = "armed" /\ exec.proc # "failed"
    /\ exec' = [exec EXCEPT !.timer = "fired", !.killed = TRUE,
                            !.atTimeout = Some(exec.proc),
                            !.signalled = (exec.proc = "running")]

\* the shell ends: on its own, or on the SIGTERM of proc.kill
ProcessExits(code) ==
    /\ exec.proc = "running"
    /\ ~exec.hangs \/ (exec.signalled /\ ~exec.ignoresTerm)
    /\ exec' = [exec EXCEPT !.proc = "exited", !.code = Some(code)]

\* lines 251-277: proc.on('close'), after the shell has ended and its streams
\* have closed, or after a failed spawn has emitted its error
OnClose ==
    /\ ~exec.closed
    /\ exec.proc = "exited" \/ (exec.proc = "failed" /\ exec.errored)
    /\ LET result == IF exec.killed THEN TimedOutResult
                     ELSE IF exec.proc = "failed" THEN ClosedResult(-2, "")
                     ELSE ClosedResult(exec.code.v, "")
       IN exec' = [exec EXCEPT
                      !.closed = TRUE,
                      !.timer = IF @ = "armed" THEN "cleared" ELSE @,
                      !.resolves = @ + 1,
                      !.result = IF @ = NULL THEN Some(result) ELSE @]

\* lines 279-287: proc.on('error'), the shell could not be spawned
OnError ==
    /\ exec.proc = "failed" /\ ~exec.errored
    /\ exec' = [exec EXCEPT
                   !.errored = TRUE,
                   !.timer = IF @ = "armed" THEN "cleared" ELSE @,
                   !.resolves = @ + 1,
                   !.result = IF @ = NULL
                              THEN Some(SpawnErrorResult("spawn " \o exec.shell \o " ENOENT"))
                              ELSE @]

NextRun ==
    \/ TimerFires /\ ExecFrame
    \/ \E code \in {0, 1, 127} : ProcessExits(code) /\ ExecFrame
    \/ OnClose /\ ExecFrame
    \/ OnError /\ ExecFrame

SpecRun == InitRun /\ [][NextRun]_vars

\* the timer fires when the timeout elapses, a command that ends does end, and
\* the event loop delivers the events that are due
FairRun ==
    /\ SpecRun
    /\ WF_vars(TimerFires /\ ExecFrame)
    /\ WF_vars(\E code \in {0, 1, 127} : ProcessExits(code) /\ ExecFrame)
    /\ WF_vars(OnClose /\ ExecFrame)
    /\ WF_vars(OnError /\ ExecFrame)

-----------------------------------------------------------------------------
(* Properties of runCommand.                                                *)

\* C23: every call that has spawned a process eventually returns a result; a
\* process still running when the timeout elapses is terminated and the call
\* returns {success:false, error:'Command timed out'}; and once the call has
\* returned the process is no longer running.
C23_TimeoutEndsTheCall ==
    /\ <>(exec.result # NULL)
    /\ [](exec.atTimeout = Some("running") => <>(exec.result = Some(TimedOutResult)))
    /\ [](exec.result # NULL => exec.proc # "running")

\* C29: whatever the order of the timer, the close event and a spawn error, the
\* result runCommand resolves with matches what happened: success only for exit
\* code 0, 'Exit code: n' with exitCode n for a process that ended on its own
\* with n # 0, the spawn error's message for a failed spawn, 'Command timed out'
\* only for a process that was still running when the timeout fired.
C29_ResultMatchesWhatHappened ==
    exec.result # NULL =>
        /\ exec.result.v.success => exec.code = Some(0)
        /\ exec.result.v = TimedOutResult => exec.atTimeout = Some("running")
        /\ (exec.proc = "exited" /\ exec.atTimeout # Some("running"))
           => exec.result.v = ClosedResult(exec.code.v, "")
        /\ exec.proc = "failed"
           => exec.result.v = SpawnErrorResult("spawn " \o exec.shell \o " ENOENT")

-----------------------------------------------------------------------------
(* Properties of cancellation.                                              *)

\* the user said no to the dangerous-command prompt of a run_command
DangerDeclined ==
    /\ last.call.toolName = "run_command"
    /\ \E i \in DOMAIN exec.prompts :
           exec.prompts[i].kind = "danger" /\ ~exec.prompts[i].proceed

\* the user said no to the 'Apply?' question of a write_file
WriteDeclined == last.call.toolName = "write_file" /\ Declined

\* C24: declining the dangerous-command prompt of run_command and declining the
\* confirmation of a file write give the same cancellation error in the tool's
\* result, and no failure of execution or of I/O gives that error.
C24_OneCancellationValue ==
    (Finished /\ last.outcome.kind = "return" /\ ~last.outcome.result.success)
    => /\ (DangerDeclined \/ WriteDeclined) => last.outcome.result.error = CANCELLED.error
       /\ ~Declined => last.outcome.result.error
                          \notin {CANCELLED.error, CANCELLED_BY_USER.error}

-----------------------------------------------------------------------------
(* Properties of multi_edit_file.                                           *)

\* the text and the number of matches after the edits are applied one after the
\* other, each to the text the earlier ones left, an edit whose old text does
\* not occur there being skipped
RECURSIVE InListOrder(_, _, _)
InListOrder(text, edits, matched) ==
    IF edits = <<>> THEN [text |-> text, matched |-> matched]
    ELSE IF ~Includes(text, NormalizeLineEndings(edits[1].old_content))
    THEN InListOrder(text, Tail(edits), matched)
    ELSE InListOrder(
            SubSeq(text, 1, IndexOf(text, NormalizeLineEndings(edits[1].old_content)) - 1)
            \o NormalizeLineEndings(edits[1].new_content)
            \o SubSeq(text, IndexOf(text, NormalizeLineEndings(edits[1].old_content))
                              + Len(NormalizeLineEndings(edits[1].old_content)), Len(text)),
            Tail(edits), matched + 1)

\* a multi_edit_file with a path and well-formed edits on a file that was read,
\* the user not having said no
MultiEdited ==
    /\ Finished
    /\ last.call.toolName = "multi_edit_file"
    /\ DOMAIN last.call.args = {"path", "edits"}
    /\ last.call.args.path \in DOMAIN last.before.files
    /\ last.env.fail # "readFile"
    /\ ~Declined

\* the outcome of a multi_edit_file, given what applying the edits in list order gives
MultiEditOutcome(expected) ==
    /\ last.outcome.kind = "return"
    /\ IF expected.matched = 0
       THEN /\ ~last.outcome.result.success
            /\ files = last.before.files
       ELSE /\ last.outcome.result = [success |-> TRUE, editsApplied |-> expected.matched]
            /\ last.env.fail \notin {"writeFile", "mkdir"}
               => files[last.call.args.path] =
                     IF Includes(last.before.files[last.call.args.path], "\r\n")
                     THEN RestoreCRLF(expected.text) ELSE expected.text

\* C25: multi_edit_file applies its edits in list order to a running copy by
\* exact, line-ending-normalized matching only, skips an edit whose old text
\* does not occur in the running copy, fails without writing exactly when no
\* edit matched, and otherwise succeeds with editsApplied = the number of edits
\* that matched.
C25_EditsInListOrder ==
    MultiEdited =>
        MultiEditOutcome(
            InListOrder(NormalizeLineEndings(last.before.files[last.call.args.path]),
                        last.call.args.edits, 0))

C25_Witness ==
    /\ MultiEdited
    /\ Len(last.call.args.edits) = 3
    /\ last.outcome.result = [success |-> TRUE, editsApplied |-> 2]
    /\ files["a.txt"] = "x = 3\ny  =  2\n"

-----------------------------------------------------------------------------
(* Properties of translateCommand.                                          *)

\* the command's tokens and the table of the platform the executor runs on
Tokens == SplitWs(Trim(exec.command))

Table == IF exec.isWindows THEN UNIX_TO_WINDOWS_COMMANDS ELSE WINDOWS_TO_UNIX_COMMANDS

\* the table entries of n tokens that are a token prefix of the command
PrefixEntries(n) ==
    {i \in 1..Len(Table) : /\ Len(SplitWs(Table[i][1])) = n
                           /\ n <= Len(Tokens)
                           /\ SplitWs(Table[i][1]) = SliceTo(Tokens, n)}

\* the entry's translation with the command's tokens after the first n appended
WithRest(i, n) ==
    Table[i][2] \o (IF Len(Tokens) > n THEN " " \o JoinSp(SliceFrom(Tokens, n)) ELSE "")

\* C26: translateCommand gives the exact whole-command entry; otherwise the
\* multi-token entry (command plus flags) that is a token prefix of the command,
\* with the remaining arguments appended, in preference to the base-command
\* entry; otherwise the base-command entry with all arguments appended;
\* otherwise null.
C26_TranslationPriority ==
    exec.pc # "idle" =>
        TranslateCommand(exec.command, exec.isWindows) =
            IF MapHas(Table, Trim(exec.command))
            THEN Some(MapGet(Table, Trim(exec.command)))
            ELSE IF PrefixEntries(2) # {}
            THEN Some(WithRest(CHOOSE i \in PrefixEntries(2) : TRUE, 2))
            ELSE IF PrefixEntries(1) # {}
            THEN Some(WithRest(CHOOSE i \in PrefixEntries(1) : TRUE, 1))
            ELSE NULL

-----------------------------------------------------------------------------
(* Properties of the whitespace tier's splice.                              *)

\* C27: when the whitespace tier of edit_file replaces the window of lines
\* i..i+n-1, the written file is the original lines before the window, then
\* new_content, then the original lines after the window, joined by the line
\* separator: blank lines before the window and a trailing newline after it
\* are kept.
C27_SplicePreservesTheRest ==
    (EditApplied /\ ExactTierFails /\ EditedWindow > 0 /\ ReturnedSuccess)
    => NormalizeLineEndings(files[last.call.args.path]) =
          JoinLines(SubSeq(SplitLines(EditedBefore), 1, EditedWindow - 1)
                    \o SplitLines(NormalizeLineEndings(last.call.args.new_content))
                    \o SubSeq(SplitLines(EditedBefore),
                              EditedWindow + Len(EditedOldLines),
                              Len(SplitLines(EditedBefore))))

-----------------------------------------------------------------------------
(* Properties of executeCommand's retry.                                    *)

-----------------------------------------------------------------------------
(* Properties of the chat history.                                          *)

\* C30: after any sequence of inputs (with or without tool batches, failed or
\* raising tools, or a stream that raises) the history strictly alternates
\* user and assistant entries and starts with a user entry: the entry at an
\* odd position is a user entry, the entry at an even position an assistant
\* entry.
C30_HistoryAlternates ==
    \A i \in DOMAIN messages :
       messages[i].role = (IF i % 2 = 1 THEN "user" ELSE "assistant")


====
